---- MODULE Spec2Model ----
(***************************************************************************)
(* Model of the expression evaluator, the answer formatter, the answer     *)
(* comparator and the batch drivers of the numerical-reasoning harness.    *)
(*                                                                         *)
(* Text is modelled character by character: a string is a sequence of      *)
(* one-character strings.  A float is modelled by its exact value: a       *)
(* reduced fraction n/d, or one of the special values inf, -inf, nan.      *)
(* Inputs are drawn so that every finite value met is a dyadic fraction    *)
(* with a short decimal expansion; for those values binary floating point  *)
(* is exact and str()/float() are modelled digit by digit.  The sign of    *)
(* zero is not modelled (-0.0 and 0.0 are the same value 0).  Quotients of *)
(* the comparator (SMAPE, match rates, mean) are kept as exact fractions,  *)
(* of which the code computes the nearest double.                          *)
(***************************************************************************)
EXTENDS Integers, Sequences, FiniteSets, TLC

(***************************************************************************)
(* Characters                                                              *)
(***************************************************************************)
Digits == {"0", "1", "2", "3", "4", "5", "6", "7", "8", "9"}

Letters == {"a", "b", "c", "d", "e", "f", "g", "h", "i", "j", "k", "l", "m",
            "n", "o", "p", "q", "r", "s", "t", "u", "v", "w", "x", "y", "z"}

\* \w of the regular expressions
WordChars == Digits \cup Letters \cup {"_"}

DigitVal(c) ==
    CASE c = "0" -> 0 [] c = "1" -> 1 [] c = "2" -> 2 [] c = "3" -> 3
      [] c = "4" -> 4 [] c = "5" -> 5 [] c = "6" -> 6 [] c = "7" -> 7
      [] c = "8" -> 8 [] c = "9" -> 9

DigitChar(n) ==
    CASE n = 0 -> "0" [] n = 1 -> "1" [] n = 2 -> "2" [] n = 3 -> "3"
      [] n = 4 -> "4" [] n = 5 -> "5" [] n = 6 -> "6" [] n = 7 -> "7"
      [] n = 8 -> "8" [] n = 9 -> "9"

\* s[a..b], empty when b < a
Slice(s, a, b) == IF b < a THEN <<>> ELSE SubSeq(s, a, b)

\* least element of a non-empty set of integers
Min(S) == CHOOSE i \in S : \A j \in S : i <= j

Contains(s, c) == \E i \in 1..Len(s) : s[i] = c

\* the text w occurs in the text s
Occurs(w, s) == \E i \in 0..(Len(s) - Len(w)) : Slice(s, i + 1, i + Len(w)) = w

\* str.replace(" ", "")
RemoveSpaces(s) == SelectSeq(s, LAMBDA c : c # " ")

\* str.strip() over the model's only whitespace character
Strip(s) ==
    LET nonsp == {i \in 1..Len(s) : s[i] # " "}
    IN  IF nonsp = {} THEN <<>>
        ELSE LET lo == CHOOSE i \in nonsp : \A j \in nonsp : i <= j
                 hi == CHOOSE i \in nonsp : \A j \in nonsp : i >= j
             IN  SubSeq(s, lo, hi)

(***************************************************************************)
(* Float values                                                            *)
(***************************************************************************)
Abs(x) == IF x < 0 THEN 0 - x ELSE x

RECURSIVE Gcd(_, _)
Gcd(a, b) == IF b = 0 THEN a ELSE Gcd(b, a % b)

RECURSIVE IntPow(_, _)
IntPow(b, e) == IF e = 0 THEN 1 ELSE b * IntPow(b, e - 1)

\* the finite value n/d (d # 0), reduced, with a positive denominator
Fin(n, d) ==
    LET g == Gcd(Abs(n), Abs(d))
        s == IF d < 0 THEN 0 - 1 ELSE 1
    IN  [k |-> "fin", n |-> (s * n) \div g, d |-> Abs(d) \div g]

PosInf == [k |-> "inf", n |-> 1, d |-> 1]
NegInf == [k |-> "inf", n |-> 0 - 1, d |-> 1]
NaN == [k |-> "nan", n |-> 0, d |-> 1]
\* a complex result of **, no float; n is its place in ComplexPowers, 0 for
\* a complex whose digits the model does not have
Complex == [k |-> "complex", n |-> 0, d |-> 1]
\* a finite float that is no exact fraction of the model (an irrational
\* root); n is its place in InexactPowers, 0 for a float whose digits the
\* model does not have
Inexact == [k |-> "inexact", n |-> 0, d |-> 1]
Zero == Fin(0, 1)
One == Fin(1, 1)
\* the float -0.0: a zero in every comparison, written with its sign
NegZero == [k |-> "negzero", n |-> 0, d |-> 1]

IsFin(v) == v.k \in {"fin", "negzero"}
IsInf(v) == v.k = "inf"
IsNaN(v) == v.k = "nan"
IsZero(v) == IsFin(v) /\ v.n = 0
\* -1, 0 or 1 for a finite or infinite value
Sign(v) == IF v.n < 0 THEN 0 - 1 ELSE IF v.n > 0 THEN 1 ELSE 0
InfOf(s) == IF s < 0 THEN NegInf ELSE PosInf
\* the sign bit of a float that is no nan
SignBit(v) == v.k = "negzero" \/ v.n < 0
\* the zero with the sign bit neg
ZeroOf(neg) == IF neg THEN NegZero ELSE Zero
IsIntegral(v) == IsFin(v) /\ v.d = 1
IsOddInteger(v) == IsIntegral(v) /\ v.n % 2 = 1

\* x < y on floats: false when either is nan
Less(x, y) ==
    IF IsNaN(x) \/ IsNaN(y) THEN FALSE
    ELSE IF IsInf(x) THEN x.n < 0 /\ ~(IsInf(y) /\ y.n < 0)
    ELSE IF IsInf(y) THEN y.n > 0
    ELSE x.n * y.d < y.n * x.d

Neg(x) == IF IsZero(x) THEN ZeroOf(~SignBit(x))
          ELSE IF IsFin(x) THEN Fin(0 - x.n, x.d)
          ELSE IF IsInf(x) THEN InfOf(0 - x.n) ELSE x

AbsV(x) == IF IsZero(x) THEN Zero
           ELSE IF Less(x, Zero) THEN Neg(x) ELSE x

FAdd(x, y) ==
    IF IsNaN(x) \/ IsNaN(y) THEN NaN
    ELSE IF IsInf(x) /\ IsInf(y) THEN (IF x.n = y.n THEN x ELSE NaN)
    ELSE IF IsInf(x) THEN x
    ELSE IF IsInf(y) THEN y
    ELSE IF x.n * y.d + y.n * x.d = 0 THEN ZeroOf(SignBit(x) /\ SignBit(y))
    ELSE Fin(x.n * y.d + y.n * x.d, x.d * y.d)

FSub(x, y) == FAdd(x, Neg(y))

FMul(x, y) ==
    IF IsNaN(x) \/ IsNaN(y) THEN NaN
    ELSE IF IsInf(x) \/ IsInf(y)
         THEN (IF Sign(x) * Sign(y) = 0 THEN NaN ELSE InfOf(Sign(x) * Sign(y)))
    ELSE IF x.n * y.n = 0 THEN ZeroOf(SignBit(x) # SignBit(y))
    ELSE Fin(x.n * y.n, x.d * y.d)

\* x / y for y # 0
FDiv(x, y) ==
    IF IsNaN(x) \/ IsNaN(y) THEN NaN
    ELSE IF IsInf(x) /\ IsInf(y) THEN NaN
    ELSE IF IsInf(x) THEN InfOf(Sign(x) * Sign(y))
    ELSE IF IsInf(y) \/ x.n = 0 THEN ZeroOf(SignBit(x) # SignBit(y))
    ELSE Fin(x.n * y.d, x.d * y.n)

\* r with r^q = n, or -1 when n is no perfect q-th power (n >= 0, q >= 1)
Root(n, q) ==
    IF \E r \in 0..n : IntPow(r, q) = n
    THEN CHOOSE r \in 0..n : IntPow(r, q) = n
    ELSE 0 - 1

\* str(x ** y) of positive x and fractional y of the values of the leaves
\* and of one operation on them, where x ** y is no fraction: the digits
\* of the float, as the platform computes them
InexactPowers ==
    <<
     [x |-> Fin(1, 4), y |-> Fin(1, 4), text |->
          <<"0", ".", "7", "0", "7", "1", "0", "6", "7", "8", "1", "1",
            "8", "6", "5", "4", "7", "6">>],
     [x |-> Fin(1, 2), y |-> Fin(0 - 3, 2), text |->
          <<"2", ".", "8", "2", "8", "4", "2", "7", "1", "2", "4", "7",
            "4", "6", "1", "9", "0", "3">>],
     [x |-> Fin(1, 2), y |-> Fin(0 - 1, 2), text |->
          <<"1", ".", "4", "1", "4", "2", "1", "3", "5", "6", "2", "3",
            "7", "3", "0", "9", "5", "1">>],
     [x |-> Fin(1, 2), y |-> Fin(1, 4), text |->
          <<"0", ".", "8", "4", "0", "8", "9", "6", "4", "1", "5", "2",
            "5", "3", "7", "1", "4", "5">>],
     [x |-> Fin(1, 2), y |-> Fin(1, 2), text |->
          <<"0", ".", "7", "0", "7", "1", "0", "6", "7", "8", "1", "1",
            "8", "6", "5", "4", "7", "6">>],
     [x |-> Fin(1, 2), y |-> Fin(3, 2), text |->
          <<"0", ".", "3", "5", "3", "5", "5", "3", "3", "9", "0", "5",
            "9", "3", "2", "7", "3", "8">>],
     [x |-> Fin(3, 2), y |-> Fin(0 - 3, 2), text |->
          <<"0", ".", "5", "4", "4", "3", "3", "1", "0", "5", "3", "9",
            "5", "1", "8", "1", "7", "4">>],
     [x |-> Fin(3, 2), y |-> Fin(0 - 1, 2), text |->
          <<"0", ".", "8", "1", "6", "4", "9", "6", "5", "8", "0", "9",
            "2", "7", "7", "2", "6">>],
     [x |-> Fin(3, 2), y |-> Fin(1, 4), text |->
          <<"1", ".", "1", "0", "6", "6", "8", "1", "9", "1", "9", "7",
            "0", "0", "3", "2", "1", "5">>],
     [x |-> Fin(3, 2), y |-> Fin(1, 2), text |->
          <<"1", ".", "2", "2", "4", "7", "4", "4", "8", "7", "1", "3",
            "9", "1", "5", "8", "9">>],
     [x |-> Fin(3, 2), y |-> Fin(3, 2), text |->
          <<"1", ".", "8", "3", "7", "1", "1", "7", "3", "0", "7", "0",
            "8", "7", "3", "8", "3", "6">>],
     [x |-> Fin(2, 1), y |-> Fin(0 - 3, 2), text |->
          <<"0", ".", "3", "5", "3", "5", "5", "3", "3", "9", "0", "5",
            "9", "3", "2", "7", "3", "8">>],
     [x |-> Fin(2, 1), y |-> Fin(0 - 1, 2), text |->
          <<"0", ".", "7", "0", "7", "1", "0", "6", "7", "8", "1", "1",
            "8", "6", "5", "4", "7", "6">>],
     [x |-> Fin(2, 1), y |-> Fin(1, 4), text |->
          <<"1", ".", "1", "8", "9", "2", "0", "7", "1", "1", "5", "0",
            "0", "2", "7", "2", "1">>],
     [x |-> Fin(2, 1), y |-> Fin(1, 2), text |->
          <<"1", ".", "4", "1", "4", "2", "1", "3", "5", "6", "2", "3",
            "7", "3", "0", "9", "5", "1">>],
     [x |-> Fin(2, 1), y |-> Fin(3, 2), text |->
          <<"2", ".", "8", "2", "8", "4", "2", "7", "1", "2", "4", "7",
            "4", "6", "1", "9", "0", "3">>]
    >>

\* the float whose digits s are (str of a float reads back as that float):
\* its place in InexactPowers, 0 when s is no text of the table
InexactRead(s) ==
    LET at == {i \in 1..Len(InexactPowers) : InexactPowers[i].text = s}
    IN  IF at = {} THEN 0 ELSE Min(at)

\* x ** y for finite x > 0 and fractional y when no fraction is the result:
\* the float is known by its digits, and two powers of the same digits are
\* the same float
InexactPower(x, y) ==
    LET at == {i \in 1..Len(InexactPowers) :
                  InexactPowers[i].x = x /\ InexactPowers[i].y = y}
    IN  [Inexact EXCEPT
            !.n = IF at = {} THEN 0 ELSE InexactRead(InexactPowers[Min(at)].text)]

\* x ** (p/q) for finite x > 0 and p/q # 0
PosPow(x, y) ==
    LET rn == Root(x.n, y.d)
        rd == Root(x.d, y.d)
        e == Abs(y.n)
    IN  IF rn < 0 \/ rd < 0 THEN InexactPower(x, y)
        ELSE IF y.n > 0 THEN Fin(IntPow(rn, e), IntPow(rd, e))
        ELSE Fin(IntPow(rd, e), IntPow(rn, e))

\* str(x ** y) of the negative x and fractional y that the expressions of
\* the model reach: the digits of the complex power, as the platform
\* computes them
ComplexPowers ==
    <<
     [x |-> Fin(0 - 2, 1), y |-> Fin(1, 2), text |->
          <<"(", "8", ".", "6", "5", "9", "5", "6", "0", "5", "6", "2", "3",
            "5", "4", "9", "3", "4", "e", "-", "1", "7", "+", "1", ".", "4",
            "1", "4", "2", "1", "3", "5", "6", "2", "3", "7", "3", "0", "9",
            "5", "1", "j", ")">>],
     [x |-> Fin(0 - 3, 2), y |-> Fin(1, 2), text |->
          <<"(", "7", ".", "4", "9", "9", "3", "9", "9", "4", "3", "2", "6",
            "0", "9", "2", "3", "1", "e", "-", "1", "7", "+", "1", ".", "2",
            "2", "4", "7", "4", "4", "8", "7", "1", "3", "9", "1", "5", "8",
            "9", "j", ")">>],
     [x |-> Fin(0 - 1, 1), y |-> Fin(0 - 3, 2), text |->
          <<"(", "-", "1", ".", "8", "3", "6", "9", "7", "0", "1", "9", "8",
            "7", "2", "1", "0", "2", "9", "7", "e", "-", "1", "6", "+", "1",
            "j", ")">>],
     [x |-> Fin(0 - 1, 1), y |-> Fin(0 - 1, 2), text |->
          <<"(", "6", ".", "1", "2", "3", "2", "3", "3", "9", "9", "5", "7",
            "3", "6", "7", "6", "6", "e", "-", "1", "7", "-", "1", "j", ")">>],
     [x |-> Fin(0 - 1, 1), y |-> Fin(1, 4), text |->
          <<"(", "0", ".", "7", "0", "7", "1", "0", "6", "7", "8", "1", "1",
            "8", "6", "5", "4", "7", "6", "+", "0", ".", "7", "0", "7", "1",
            "0", "6", "7", "8", "1", "1", "8", "6", "5", "4", "7", "5", "j",
            ")">>],
     [x |-> Fin(0 - 1, 1), y |-> Fin(1, 2), text |->
          <<"(", "6", ".", "1", "2", "3", "2", "3", "3", "9", "9", "5", "7",
            "3", "6", "7", "6", "6", "e", "-", "1", "7", "+", "1", "j", ")">>],
     [x |-> Fin(0 - 1, 1), y |-> Fin(3, 2), text |->
          <<"(", "-", "1", ".", "8", "3", "6", "9", "7", "0", "1", "9", "8",
            "7", "2", "1", "0", "2", "9", "7", "e", "-", "1", "6", "-", "1",
            "j", ")">>],
     [x |-> Fin(0 - 1, 2), y |-> Fin(1, 2), text |->
          <<"(", "4", ".", "3", "2", "9", "7", "8", "0", "2", "8", "1", "1",
            "7", "7", "4", "6", "7", "e", "-", "1", "7", "+", "0", ".", "7",
            "0", "7", "1", "0", "6", "7", "8", "1", "1", "8", "6", "5", "4",
            "7", "6", "j", ")">>]
    >>

\* x ** y for finite x < 0 and fractional y: a complex
ComplexPower(x, y) ==
    LET at == {i \in 1..Len(ComplexPowers) :
                  ComplexPowers[i].x = x /\ ComplexPowers[i].y = y}
    IN  [Complex EXCEPT !.n = IF at = {} THEN 0 ELSE Min(at)]

\* float.__pow__: [raise |-> TRUE] stands for ZeroDivisionError
FPow(x, y) ==
    LET val(v) == [raise |-> FALSE, v |-> v]
    IN  IF IsZero(y) THEN val(One)
        ELSE IF IsNaN(x) THEN val(NaN)
        ELSE IF IsNaN(y) THEN val(IF x = One THEN One ELSE NaN)
        ELSE IF IsInf(y) THEN
             (IF AbsV(x) = One THEN val(One)
              ELSE IF (y.n > 0) = Less(One, AbsV(x)) THEN val(PosInf)
              ELSE val(Zero))
        ELSE IF IsInf(x) THEN
             (IF y.n > 0 THEN val(IF IsOddInteger(y) THEN x ELSE PosInf)
              ELSE val(IF IsOddInteger(y) THEN ZeroOf(SignBit(x)) ELSE Zero))
        ELSE IF IsZero(x) THEN
             (IF y.n < 0 THEN [raise |-> TRUE, v |-> NaN]
              ELSE val(IF IsOddInteger(y) THEN x ELSE Zero))
        ELSE IF x.n < 0 /\ ~IsIntegral(y) THEN val(ComplexPower(x, y))
        ELSE IF x.n < 0 THEN
             val(IF IsOddInteger(y) THEN Neg(PosPow(Neg(x), y))
                 ELSE PosPow(Neg(x), y))
        ELSE val(PosPow(x, y))

(***************************************************************************)
(* float(text) and str(float)                                              *)
(***************************************************************************)
RECURSIVE DigitsToNat(_)
DigitsToNat(s) ==
    IF s = <<>> THEN 0
    ELSE 10 * DigitsToNat(SubSeq(s, 1, Len(s) - 1)) + DigitVal(s[Len(s)])

\* digits with at most one point and at least one digit
IsDecimal(s) ==
    /\ \A i \in 1..Len(s) : s[i] \in Digits \cup {"."}
    /\ Cardinality({i \in 1..Len(s) : s[i] = "."}) <= 1
    /\ \E i \in 1..Len(s) : s[i] \in Digits

DecimalValue(s) ==
    LET dots == {i \in 1..Len(s) : s[i] = "."}
        p == IF dots = {} THEN Len(s) + 1 ELSE CHOOSE i \in dots : TRUE
        ds == SelectSeq(s, LAMBDA c : c # ".")
    IN  Fin(DigitsToNat(ds), IntPow(10, Len(s) - p + (IF dots = {} THEN 1 ELSE 0)))

\* the digits before the point of a decimal, leading zeros not counted
IntegerDigits(s) ==
    LET dots == {i \in 1..Len(s) : s[i] = "."}
        whole == IF dots = {} THEN s ELSE Slice(s, 1, Min(dots) - 1)
        nz == {i \in 1..Len(whole) : whole[i] # "0"}
    IN  IF nz = {} THEN 0 ELSE Len(whole) - Min(nz) + 1

\* the largest finite float is below 10^MaxDecimalExponent
MaxDecimalExponent == 309

\* mantissa m and exponent text x of "<m>e<x>": m * 10^x, infinite when it
\* has more than MaxDecimalExponent digits before the point (m of the model's
\* texts has a non-zero digit before the point, and no text lies between the
\* largest float and 10^MaxDecimalExponent)
Scientific(m, x) ==
    LET xneg == x[1] = "-"
        xs == IF x[1] \in {"-", "+"} THEN Tail(x) ELSE x
        ex == DigitsToNat(xs)
        mv == DecimalValue(m)
    IN  IF IsZero(mv) THEN Zero
        ELSE IF xneg THEN Fin(mv.n, mv.d * IntPow(10, ex))
        ELSE IF IntegerDigits(m) + ex > MaxDecimalExponent THEN PosInf
        ELSE Fin(mv.n * IntPow(10, ex), mv.d)

IsExponent(x) ==
    LET xs == IF x # <<>> /\ x[1] \in {"-", "+"} THEN Tail(x) ELSE x
    IN  xs # <<>> /\ \A i \in 1..Len(xs) : xs[i] \in Digits

\* float(s): [ok |-> FALSE] stands for ValueError.  Underscores, "infinity"
\* and upper case are not in the alphabet of the model's texts; a numeral
\* too small for a float (underflow) is not among them either.
Float(s) ==
    LET t == Strip(s)
        signed == Len(t) > 0 /\ t[1] \in {"-", "+"}
        body == IF signed THEN Tail(t) ELSE t
        sg == IF signed /\ t[1] = "-" THEN 0 - 1 ELSE 1
        es == {i \in 1..Len(body) : body[i] = "e"}
        ep == Min(es)
        mant == Slice(body, 1, ep - 1)
        expo == Slice(body, ep + 1, Len(body))
        val(v) == [ok |-> TRUE, v |-> IF sg < 0 THEN Neg(v) ELSE v]
    IN  IF body = <<"i", "n", "f">> THEN val(PosInf)
        ELSE IF body = <<"n", "a", "n">> THEN [ok |-> TRUE, v |-> NaN]
        ELSE IF ~signed /\ InexactRead(body) # 0
             THEN [ok |-> TRUE, v |-> [Inexact EXCEPT !.n = InexactRead(body)]]
        ELSE IF IsDecimal(body) THEN val(DecimalValue(body))
        ELSE IF es # {} /\ IsDecimal(mant) /\ IsExponent(expo)
             THEN val(Scientific(mant, expo))
        ELSE [ok |-> FALSE, v |-> NaN]

RECURSIVE NatToDigits(_)
NatToDigits(n) ==
    IF n < 10 THEN <<DigitChar(n)>>
    ELSE NatToDigits(n \div 10) \o <<DigitChar(n % 10)>>

\* the digits of r/d after the point (0 <= r < d, d = 2^a 5^b), none when r = 0
RECURSIVE FracDigits(_, _)
FracDigits(r, d) ==
    IF r = 0 THEN <<>>
    ELSE <<DigitChar((10 * r) \div d)>> \o FracDigits((10 * r) % d, d)

\* str(v) of a float: repr, the shortest text that reads back as v
Str(v) ==
    IF IsNaN(v) THEN <<"n", "a", "n">>
    ELSE IF IsInf(v) THEN (IF v.n < 0 THEN <<"-">> ELSE <<>>) \o <<"i", "n", "f">>
    ELSE LET a == Abs(v.n)
             fr == FracDigits(a % v.d, v.d)
         IN  (IF SignBit(v) THEN <<"-">> ELSE <<>>)
             \o NatToDigits(a \div v.d) \o <<".">>
             \o (IF fr = <<>> THEN <<"0">> ELSE fr)

\* str(v) of a complex with a non-zero real part, "(<re>+<im>j)" or
\* "(<re>-<im>j)"; a complex outside ComplexPowers has its parentheses, its
\* sign and its j only
StrComplex(v) ==
    IF v.n = 0 THEN <<"(", "+", "j", ")">> ELSE ComplexPowers[v.n].text

\* str(v) of a float that is no fraction: its digits; a float outside
\* InexactPowers has its decimal point only
StrInexact(v) ==
    IF v.n = 0 THEN <<".">> ELSE InexactPowers[v.n].text

(***************************************************************************)
(* ExpressionEvaluator                                                     *)
(***************************************************************************)
ADD == <<"a", "d", "d">>
SUBTRACT == <<"s", "u", "b", "t", "r", "a", "c", "t">>
MULTIPLY == <<"m", "u", "l", "t", "i", "p", "l", "y">>
DIVIDE == <<"d", "i", "v", "i", "d", "e">>
EXP == <<"e", "x", "p">>
GREATER == <<"g", "r", "e", "a", "t", "e", "r">>

\* the keys of self.operations
operations == {ADD, SUBTRACT, MULTIPLY, DIVIDE, EXP, GREATER}

\* a division by zero that follows the sign of the dividend
divide_signed(x, y) == IF IsZero(y) THEN InfOf(Sign(x)) ELSE FDiv(x, y)

\* 'divide': lambda x, y: x / y if y != 0 else float('inf')
divide(x, y) == IF IsZero(y) THEN PosInf ELSE FDiv(x, y)

\* 'greater': lambda x, y: 1 if x > y else 0
greater(x, y) == IF Less(y, x) THEN One ELSE Zero

\* 'exp': lambda x, y: x ** y
exp(x, y) == FPow(x, y)

\* self.operations[func_name](x, y): raise stands for an exception of the lambda
ApplyOperation(func_name, x, y) ==
    LET val(v) == [raise |-> FALSE, v |-> v]
    IN  CASE func_name = ADD -> val(FAdd(x, y))
          [] func_name = SUBTRACT -> val(FSub(x, y))
          [] func_name = MULTIPLY -> val(FMul(x, y))
          [] func_name = DIVIDE -> val(divide(x, y))
          [] func_name = EXP -> exp(x, y)
          [] func_name = GREATER -> val(greater(x, y))

\* str(result): greater returns the int 1 or 0, ** may return a complex
ResultText(func_name, v) ==
    IF func_name = GREATER THEN (IF v = One THEN <<"1">> ELSE <<"0">>)
    ELSE IF v.k = "complex" THEN StrComplex(v)
    ELSE IF v.k = "inexact" THEN StrInexact(v)
    ELSE Str(v)

\* re.search(r'(\w+)\(([^()]+)\)', e): the left-most match.  A match starts
\* a run of word characters that ends at "(", and closes at the next
\* parenthesis, which is ")" and not the character after "(".
Search(e) ==
    LET n == Len(e)
        runEnd(i) == Min({j \in (i + 1)..(n + 1) : j = n + 1 \/ e[j] \notin WordChars})
        nextParen(j) == Min({k \in (j + 1)..(n + 1) : k = n + 1 \/ e[k] \in {"(", ")"}})
        matches(i) ==
            /\ e[i] \in WordChars
            /\ runEnd(i) <= n
            /\ e[runEnd(i)] = "("
            /\ nextParen(runEnd(i)) <= n
            /\ e[nextParen(runEnd(i))] = ")"
            /\ nextParen(runEnd(i)) > runEnd(i) + 1
        starts == {i \in 1..n : matches(i)}
    IN  IF starts = {} THEN [found |-> FALSE, start |-> 0, open |-> 0, close |-> 0]
        ELSE [found |-> TRUE, start |-> Min(starts),
              open |-> runEnd(Min(starts)),
              close |-> nextParen(runEnd(Min(starts)))]

\* a split that keeps the first two pieces only
RECURSIVE SplitFirstTwo(_)
SplitFirstTwo(s) ==
    LET commas == {i \in 1..Len(s) : s[i] = ","}
        rest == Slice(s, Min(commas) + 1, Len(s))
        commas2 == {i \in 1..Len(rest) : rest[i] = ","}
    IN  IF commas = {} THEN <<s>>
        ELSE <<Slice(s, 1, Min(commas) - 1),
               IF commas2 = {} THEN rest ELSE Slice(rest, 1, Min(commas2) - 1)>>

\* s.split(','): the pieces between the commas
RECURSIVE Split(_)
Split(s) ==
    LET commas == {i \in 1..Len(s) : s[i] = ","}
    IN  IF commas = {} THEN <<s>>
        ELSE <<Slice(s, 1, Min(commas) - 1)>>
             \o Split(Slice(s, Min(commas) + 1, Len(s)))

\* the three messages of evaluate
UnknownOperation == "Unknown operation"
InvalidFormat == "Invalid expression format"
ErrorEvaluating == "Error evaluating"

NoCall == [func_name |-> <<>>, args |-> <<>>, raised |-> FALSE, result |-> NaN]

\* what a pass of the while loop hands back.
\* st: "loop" (go round again), "value" (return v) or "error" (raise err).
Pass(st, e, v, err, name, call) ==
    [st |-> st, e |-> e, v |-> v, err |-> err, name |-> name, call |-> call]

FailedCall(func_name, args) ==
    [func_name |-> func_name, args |-> args, raised |-> TRUE, result |-> NaN]

\* evaluate, lines 52-53 and the except clause: e2 is the expression after
\* the substitution, f is float(e2)
LoopReturn(e2, f, func_name, call) ==
    IF Contains(e2, "(") THEN Pass("loop", e2, NaN, "", <<>>, call)
    ELSE IF f.ok THEN Pass("value", e2, f.v, "", <<>>, call)
    ELSE Pass("error", e2, NaN, ErrorEvaluating, func_name, call)

\* evaluate, line 49: the call at m is replaced by str(result)
LoopSubstitute(e, m, func_name, call, e2) ==
    LoopReturn(e2, Float(e2), func_name, call)

\* evaluate, lines 46-49: r is operations[func_name](*args)
LoopApply(e, m, func_name, args, r) ==
    IF r.raise
    THEN Pass("error", e, NaN, ErrorEvaluating, func_name, FailedCall(func_name, args))
    ELSE LoopSubstitute(e, m, func_name,
             [func_name |-> func_name, args |-> args, raised |-> FALSE,
              result |-> r.v],
             Slice(e, 1, m.start - 1) \o ResultText(func_name, r.v)
                 \o Slice(e, m.close + 1, Len(e)))

\* evaluate, lines 44-46: fl are the float(arg.strip()) of the arguments
LoopArguments(e, m, func_name, fl) ==
    IF \E i \in 1..Len(fl) : ~fl[i].ok
    THEN Pass("error", e, NaN, ErrorEvaluating, func_name, FailedCall(func_name, <<>>))
    ELSE IF Len(fl) # 2
    THEN Pass("error", e, NaN, ErrorEvaluating, func_name,
              FailedCall(func_name, [i \in 1..Len(fl) |-> fl[i].v]))
    ELSE LoopApply(e, m, func_name, <<fl[1].v, fl[2].v>>,
                   ApplyOperation(func_name, fl[1].v, fl[2].v))

\* evaluate, lines 36-44: func_name and the texts of the arguments
LoopCall(e, m, func_name, texts) ==
    IF func_name \notin operations
    THEN Pass("error", e, NaN, UnknownOperation, func_name, NoCall)
    ELSE LoopArguments(e, m, func_name,
                       [i \in 1..Len(texts) |-> Float(Strip(texts[i]))])

\* evaluate, lines 32-37: m is the match of the pattern
LoopMatch(e, m) ==
    IF ~m.found THEN Pass("error", e, NaN, InvalidFormat, <<>>, NoCall)
    ELSE LoopCall(e, m, Slice(e, m.start, m.open - 1),
                  Split(Slice(e, m.open + 1, m.close - 1)))

\* One pass of the while loop of evaluate on the text e.
LoopBody(e) == LoopMatch(e, Search(e))

(***************************************************************************)
(* Expressions given to evaluate                                           *)
(***************************************************************************)
\* A parse tree: a numeral leaf (op empty) or a call of op on args.
Leaf(t) == [op |-> <<>>, args |-> <<>>, text |-> t]
Call(name, args) == [op |-> name, args |-> args, text |-> <<>>]
IsLeaf(t) == t.op = <<>>

RECURSIVE Render(_)
RECURSIVE RenderArgs(_)
\* the text of a tree, written with ", " between arguments
Render(t) ==
    IF IsLeaf(t) THEN t.text
    ELSE t.op \o <<"(">> \o RenderArgs(t.args) \o <<")">>
RenderArgs(a) ==
    IF a = <<>> THEN <<>>
    ELSE IF Len(a) = 1 THEN Render(a[1])
    ELSE Render(a[1]) \o <<",", " ">> \o RenderArgs(Tail(a))

\* a decimal numeral, possibly negative
IsNumeral(t) == IF t # <<>> /\ t[1] = "-" THEN IsDecimal(Tail(t)) ELSE IsDecimal(t)

RECURSIVE WellFormed(_)
\* the grammar of section 3: a numeral, or one of the six names on two expressions
WellFormed(t) ==
    IF IsLeaf(t) THEN IsNumeral(t.text)
    ELSE /\ t.op \in operations
         /\ Len(t.args) = 2
         /\ \A i \in 1..Len(t.args) : WellFormed(t.args[i])

RECURSIVE Depth(_)
Depth(t) ==
    IF IsLeaf(t) \/ t.args = <<>> THEN 0
    ELSE 1 + (CHOOSE m \in {Depth(t.args[i]) : i \in 1..Len(t.args)} :
                 \A i \in 1..Len(t.args) : Depth(t.args[i]) <= m)

RECURSIVE PostOrder(_)
\* Post-order evaluation of a well-formed tree with the six operations.
\* raise: an operation raised.  An operation on a complex argument gives a
\* complex (no float) again.
PostOrder(t) ==
    IF IsLeaf(t) THEN [raise |-> FALSE, v |-> Float(t.text).v]
    ELSE LET x == PostOrder(t.args[1])
             y == PostOrder(t.args[2])
         IN  IF x.raise \/ y.raise THEN [raise |-> TRUE, v |-> NaN]
             ELSE IF x.v.k = "complex" \/ y.v.k = "complex"
                  THEN [raise |-> FALSE, v |-> Complex]
             ELSE IF x.v.k = "inexact" \/ y.v.k = "inexact"
                  THEN [raise |-> FALSE, v |-> Inexact]
             ELSE ApplyOperation(t.op, x.v, y.v)

RECURSIVE SubTrees(_)
SubTrees(t) == {t} \cup UNION {SubTrees(t.args[i]) : i \in 1..Len(t.args)}

\* Bounds of exact modelling: every finite value met in t is n/d with d a
\* small power of two and |n| up to MaxNumerator.
Denominators == {1, 2, 4, 8, 16}
MaxNumerator == 100000
Exact(v) ==
    /\ v.k # "inexact"
    /\ IsFin(v) => (v.d \in Denominators /\ Abs(v.n) <= MaxNumerator)
\* the arguments met in t are exact; the value of t is exact or a float
\* known by its digits
Representable(t) ==
    /\ \A u \in SubTrees(t) \ {t} : Exact(PostOrder(u).v)
    /\ LET v == PostOrder(t).v
       IN  Exact(v) \/ (v.k = "inexact" /\ v.n > 0)

LeafTexts == {<<"0">>, <<"1">>, <<"-", "1">>, <<"2">>, <<"0", ".", "5">>}
InnerTexts == {<<"0">>, <<"-", "1">>, <<"0", ".", "5">>}
Leaves == {Leaf(t) : t \in LeafTexts}
InnerLeaves == {Leaf(t) : t \in InnerTexts}

\* every call of an operation on two leaves
Calls1 == {Call(f, <<a, b>>) : f \in operations, a \in Leaves, b \in Leaves}
InnerCalls == {Call(f, <<a, b>>) : f \in operations, a \in InnerLeaves, b \in InnerLeaves}
\* a call with one nested call, on either side
Calls2 ==
    {Call(f, <<c, a>>) : f \in operations, c \in InnerCalls, a \in InnerLeaves}
    \cup {Call(f, <<a, c>>) : f \in operations, c \in InnerCalls, a \in InnerLeaves}
\* a call on two divisions by zero
DivZero == {Call(DIVIDE, <<a, Leaf(<<"0">>)>>) : a \in InnerLeaves}
Calls3 == {Call(f, <<c, c2>>) : f \in operations, c \in DivZero, c2 \in DivZero}

\* nesting to depth k, to the right and to the left
MaxNest == 10
RECURSIVE RightNest(_, _)
RightNest(f, k) ==
    IF k = 0 THEN Leaf(<<"1">>) ELSE Call(f, <<Leaf(<<"2">>), RightNest(f, k - 1)>>)
RECURSIVE LeftNest(_, _)
LeftNest(f, k) ==
    IF k = 0 THEN Leaf(<<"1">>) ELSE Call(f, <<LeftNest(f, k - 1), Leaf(<<"2">>)>>)
Nested ==
    {RightNest(f, k) : f \in {ADD, SUBTRACT}, k \in 3..MaxNest}
    \cup {LeftNest(f, k) : f \in {SUBTRACT, GREATER}, k \in 3..MaxNest}

\* Ill-formed: an unknown name, one or three arguments, text after the call
FOO == <<"f", "o", "o">>
PlainOps == {ADD, DIVIDE, GREATER}
BadLeaves == {Leaf(<<"1">>), Leaf(<<"0">>)}
UnknownName ==
    {Call(FOO, <<a, b>>) : a \in BadLeaves, b \in BadLeaves}
    \cup {Call(FOO, <<Call(f, <<a, b>>), b>>) : f \in PlainOps, a \in BadLeaves, b \in BadLeaves}
    \cup {Call(f, <<a, Call(FOO, <<a, b>>)>>) : f \in PlainOps, a \in BadLeaves, b \in BadLeaves}
WrongArity ==
    {Call(f, <<a>>) : f \in PlainOps, a \in BadLeaves}
    \cup {Call(f, <<>>) : f \in PlainOps}
    \cup {Call(f, <<a, b, a>>) : f \in PlainOps, a \in BadLeaves, b \in BadLeaves}
    \cup {Call(f, <<Call(f, <<a, b, a>>), b>>) : f \in PlainOps, a \in BadLeaves, b \in BadLeaves}
    \cup {Call(f, <<a, Call(f, <<b>>)>>) : f \in PlainOps, a \in BadLeaves, b \in BadLeaves}
\* "625" after "3.0" reads as the numeral 3.0625
Tails == {<<"x">>, <<")">>, <<"6", "2", "5">>, <<",", "1">>}
Trailing ==
    {[tree |-> Call(f, <<a, b>>), tail |-> g] : f \in PlainOps, a \in BadLeaves, b \in BadLeaves, g \in Tails}
    \cup {[tree |-> a, tail |-> g] : a \in BadLeaves, g \in Tails}

\* the expressions of the model: a tree and the text after it
EvalInputs ==
    {[tree |-> t, tail |-> <<>>] :
        t \in {u \in Leaves \cup Calls1 \cup Calls2 \cup Calls3 \cup Nested : Representable(u)}}
    \cup {[tree |-> t, tail |-> <<>>] : t \in UnknownName \cup WrongArity}
    \cup Trailing

InputText(i) == Render(i.tree) \o i.tail

(***************************************************************************)
(* AnswerFormatter                                                         *)
(***************************************************************************)
\* |v| * 10^r cut to an integer
RoundDown(v, r) == (Abs(v.n) * IntPow(10, r)) \div v.d

\* |v| * 10^r rounded to an integer, ties to even (v finite, r >= 0)
RoundHalfEven(v, r) ==
    LET num == Abs(v.n) * IntPow(10, r)
        q == num \div v.d
        rem == num % v.d
    IN  IF 2 * rem > v.d THEN q + 1
        ELSE IF 2 * rem = v.d THEN q + (q % 2)
        ELSE q

\* round(value, ndigits) of a float; inf and nan are returned as they are
round(value, ndigits) ==
    IF ~IsFin(value) THEN value
    ELSE IF RoundHalfEven(value, ndigits) = 0 THEN ZeroOf(SignBit(value))
    ELSE Fin(Sign(value) * RoundHalfEven(value, ndigits), IntPow(10, ndigits))

\* s with zeros in front up to length r
RECURSIVE ZeroPad(_, _)
ZeroPad(s, r) == IF Len(s) >= r THEN s ELSE ZeroPad(<<"0">> \o s, r)

\* "{:.<r>f}".format(v) for v = round(value, r): r digits after the point,
\* no point when r = 0.  neg: the sign bit of v; a negative value that rounds
\* to zero is -0.0 and is written with its sign.
FormatFixed(v, r, neg) ==
    IF IsNaN(v) THEN <<"n", "a", "n">>
    ELSE IF IsInf(v) THEN (IF v.n < 0 THEN <<"-">> ELSE <<>>) \o <<"i", "n", "f">>
    ELSE LET q == RoundHalfEven(v, r)
             p == IntPow(10, r)
         IN  (IF neg THEN <<"-">> ELSE <<>>)
             \o NatToDigits(q \div p)
             \o (IF r = 0 THEN <<>> ELSE <<".">> \o ZeroPad(NatToDigits(q % p), r))

\* AnswerFormatter.format_number
format_number(number, instructions) ==
    LET value == FMul(number, instructions.multiplier)
        rounded_value == round(value, instructions.rounding)
        number_str == FormatFixed(rounded_value, instructions.rounding,
                                  SignBit(rounded_value))
    IN  instructions.prefix \o number_str \o instructions.suffix

(***************************************************************************)
(* AnswerEvaluator                                                         *)
(***************************************************************************)
\* a prefix pattern that runs over a minus sign
PrefixStopNoSign == Digits \cup {"."}
\* a suffix pattern that stops at a minus sign
SuffixStopWithSign == Digits \cup {".", "-"}

\* the characters that end [^\d.-]* and [^\d.]*
PrefixStop == Digits \cup {".", "-"}
SuffixStop == Digits \cup {"."}

\* re.match(r'^[^\d.-]*', a).group(0)
MatchPrefix(a) ==
    LET stops == {i \in 1..Len(a) : a[i] \in PrefixStop}
    IN  IF stops = {} THEN a ELSE Slice(a, 1, Min(stops) - 1)

\* re.search(r'[^\d.]*$', a).group(0)
MatchSuffix(a) ==
    LET stops == {i \in 1..Len(a) : a[i] \in SuffixStop}
        lastStop == CHOOSE i \in stops : \A j \in stops : j <= i
    IN  IF stops = {} THEN a ELSE Slice(a, lastStop + 1, Len(a))

NoParse == [ok |-> FALSE, raw_string |-> <<>>, number |-> NaN, prefix |-> <<>>,
            suffix |-> <<>>, decimal_places |-> 0]

\* the text of the ValueError of parse_answer, before the stripped answer
CouldNotParse ==
    <<"C", "o", "u", "l", "d", " ", "n", "o", "t", " ", "p", "a", "r", "s",
     "e", " ", "n", "u", "m", "b", "e", "r", " ", "f", "r", "o", "m", " ">>

\* AnswerEvaluator.parse_answer: ok FALSE stands for the ValueError
\* "Could not parse number from ..."
parse_answer(text) ==
    LET answer == Strip(text)
        prefix == MatchPrefix(answer)
        suffix == MatchSuffix(answer)
        number_str == Slice(answer, Len(prefix) + 1, Len(answer) - Len(suffix))
        dots == {i \in 1..Len(number_str) : number_str[i] = "."}
        decimal_places == IF dots = {} THEN 0 ELSE Len(number_str) - Min(dots)
    IN  IF ~Float(number_str).ok THEN [NoParse EXCEPT !.raw_string = answer]
        ELSE [ok |-> TRUE, raw_string |-> answer, number |-> Float(number_str).v,
              prefix |-> prefix, suffix |-> suffix,
              decimal_places |-> decimal_places]

\* float division x / y: [raise |-> TRUE] stands for ZeroDivisionError
TrueDiv(x, y) ==
    IF IsZero(y) THEN [raise |-> TRUE, v |-> NaN]
    ELSE [raise |-> FALSE, v |-> FDiv(x, y)]

\* AnswerEvaluator._calculate_smape
calculate_smape(generated, expected) ==
    IF IsZero(AbsV(generated)) /\ IsZero(AbsV(expected))
    THEN [raise |-> FALSE, v |-> Zero]
    ELSE TrueDiv(FMul(Fin(200, 1), AbsV(FSub(generated, expected))),
                 FAdd(AbsV(generated), AbsV(expected)))

NoComparison ==
    [ok |-> FALSE, crash |-> FALSE, smape |-> NaN, prefix_match |-> FALSE,
     suffix_match |-> FALSE, decimal_places_match |-> FALSE, message |-> <<>>]

\* the text of the ValueError of compare_answers, before str(e)
ErrorComparing ==
    <<"E", "r", "r", "o", "r", " ", "c", "o", "m", "p", "a", "r", "i", "n",
     "g", " ", "a", "n", "s", "w", "e", "r", "s", ":", " ">>

\* compare_answers, lines 104-105: the ValueError raised for the side whose
\* parse_answer raised, failed being its result
ComparisonError(failed) ==
    [NoComparison EXCEPT
        !.message = ErrorComparing \o CouldNotParse \o failed.raw_string]

\* compare_answers, lines 95-103: the dict returned, smape being the result
\* of _calculate_smape
Comparison(gen_parsed, exp_parsed, smape) ==
    IF smape.raise THEN [NoComparison EXCEPT !.crash = TRUE]
    ELSE [ok |-> TRUE, crash |-> FALSE, smape |-> smape.v,
          prefix_match |-> gen_parsed.prefix = exp_parsed.prefix,
          suffix_match |-> gen_parsed.suffix = exp_parsed.suffix,
          decimal_places_match |->
              gen_parsed.decimal_places = exp_parsed.decimal_places,
          message |-> <<>>]

\* compare_answers, lines 90-105, on the two results of parse_answer
CompareParsed(gen_parsed, exp_parsed) ==
    IF ~gen_parsed.ok THEN ComparisonError(gen_parsed)
    ELSE IF ~exp_parsed.ok THEN ComparisonError(exp_parsed)
    ELSE Comparison(gen_parsed, exp_parsed,
                    calculate_smape(gen_parsed.number, exp_parsed.number))

\* AnswerEvaluator.compare_answers: ok FALSE stands for the ValueError
\* "Error comparing answers: ...", crash for any other exception
compare_answers(generated, expected) ==
    CompareParsed(parse_answer(generated), parse_answer(expected))

\* evaluate_batch: format_counts, total_smape and valid_comparisons at the
\* start of the loop
BatchStart ==
    [format_counts |-> [prefix_match |-> 0, suffix_match |-> 0,
                        decimal_places_match |-> 0],
     total_smape |-> Zero, valid_comparisons |-> 0, results |-> NoComparison]

\* evaluate_batch, lines 132-141: the counters after a comparison that
\* returned results; a ValueError leaves them as they are
BatchCount(acc, results) ==
    LET bump(c, hit) == IF hit THEN c + 1 ELSE c
    IN  IF ~results.ok THEN [acc EXCEPT !.results = results]
        ELSE [format_counts |->
                 [prefix_match |->
                      bump(acc.format_counts.prefix_match, results.prefix_match),
                  suffix_match |->
                      bump(acc.format_counts.suffix_match, results.suffix_match),
                  decimal_places_match |->
                      bump(acc.format_counts.decimal_places_match,
                           results.decimal_places_match)],
              total_smape |-> FAdd(acc.total_smape, results.smape),
              valid_comparisons |-> acc.valid_comparisons + 1,
              results |-> results]

\* evaluate_batch: the body of the for loop on one pair
BatchBody(acc, pair) == BatchCount(acc, compare_answers(pair[1], pair[2]))

\* the result of evaluate_batch on no pair: {}
EmptyMetrics ==
    [keys |-> {}, prefix_match_rate |-> Zero, suffix_match_rate |-> Zero,
     decimal_places_match_rate |-> Zero, mean_smape |-> NaN]

RateKeys == {"prefix_match_rate", "suffix_match_rate", "decimal_places_match_rate"}

\* metrics whose rates are taken over the valid comparisons
BatchMetricsOverValid(acc, total) ==
    LET n == IF acc.valid_comparisons = 0 THEN total ELSE acc.valid_comparisons
    IN  [keys |-> RateKeys \cup (IF acc.valid_comparisons > 0 THEN {"mean_smape"} ELSE {}),
         prefix_match_rate |-> Fin(acc.format_counts.prefix_match, n),
         suffix_match_rate |-> Fin(acc.format_counts.suffix_match, n),
         decimal_places_match_rate |-> Fin(acc.format_counts.decimal_places_match, n),
         mean_smape |-> IF acc.valid_comparisons > 0
                        THEN FDiv(acc.total_smape, Fin(acc.valid_comparisons, 1))
                        ELSE NaN]

\* metrics that always hold a mean_smape
BatchMetricsWithMean(acc, total) ==
    [keys |-> RateKeys \cup {"mean_smape"},
     prefix_match_rate |-> Fin(acc.format_counts.prefix_match, total),
     suffix_match_rate |-> Fin(acc.format_counts.suffix_match, total),
     decimal_places_match_rate |-> Fin(acc.format_counts.decimal_places_match, total),
     mean_smape |-> IF acc.valid_comparisons > 0
                    THEN FDiv(acc.total_smape, Fin(acc.valid_comparisons, 1))
                    ELSE NaN]

\* evaluate_batch: the metrics computed after the loop (total > 0); keys are
\* the keys of the dict, a field outside keys is not in it
BatchMetrics(acc, total) ==
    [keys |-> RateKeys \cup (IF acc.valid_comparisons > 0 THEN {"mean_smape"} ELSE {}),
     prefix_match_rate |-> Fin(acc.format_counts.prefix_match, total),
     suffix_match_rate |-> Fin(acc.format_counts.suffix_match, total),
     decimal_places_match_rate |-> Fin(acc.format_counts.decimal_places_match, total),
     mean_smape |-> IF acc.valid_comparisons > 0
                    THEN FDiv(acc.total_smape, Fin(acc.valid_comparisons, 1))
                    ELSE NaN]

RECURSIVE BatchFold(_, _)
\* evaluate_batch: the for loop over pairs from the counters acc
BatchFold(acc, pairs) ==
    IF pairs = <<>> THEN acc ELSE BatchFold(BatchBody(acc, Head(pairs)), Tail(pairs))

\* AnswerEvaluator.evaluate_batch
evaluate_batch(pairs) ==
    IF Len(pairs) = 0 THEN EmptyMetrics
    ELSE BatchMetrics(BatchFold(BatchStart, pairs), Len(pairs))

(***************************************************************************)
(* AnswerProcessor and process_dataset                                     *)
(***************************************************************************)
RECURSIVE EvaluatePass(_)
\* evaluate: the while loop from the pass b to its end
EvaluatePass(b) ==
    IF b.st = "loop" THEN EvaluatePass(LoopBody(b.e))
    ELSE [ok |-> b.st = "value", v |-> b.v, err |-> b.err]

\* evaluate, lines 21-31: e is the expression without spaces, f is float(e)
EvaluateText(e, f) ==
    IF f.ok THEN [ok |-> TRUE, v |-> f.v, err |-> ""]
    ELSE EvaluatePass(LoopBody(e))

EvaluateStripped(e) == EvaluateText(e, Float(e))

\* ExpressionEvaluator.evaluate: ok FALSE stands for the ValueError raised
evaluate(text) == EvaluateStripped(RemoveSpaces(text))

\* AnswerFormatter.parse_instructions: format_dict.get(key, default); keys
\* are the keys of the dict
parse_instructions(format_dict) ==
    [prefix |-> IF "prefix" \in format_dict.keys THEN format_dict.prefix ELSE <<>>,
     suffix |-> IF "suffix" \in format_dict.keys THEN format_dict.suffix ELSE <<>>,
     rounding |-> IF "rounding" \in format_dict.keys THEN format_dict.rounding ELSE 2,
     multiplier |-> IF "multiplier" \in format_dict.keys
                    THEN format_dict.multiplier ELSE One]

\* The text of a response is modelled as a sequence of tokens: the fence
\* markers "fence_json" (three backquotes and json) and "fence" (three
\* backquotes), the white space " " and "\n", "{}" for the JSON text of the
\* response and "x" for any other text.
IsSpace(t) == t \in {" ", "\n"}

RECURSIVE DropSpaces(_)
\* s without its leading white space
DropSpaces(s) ==
    IF s # <<>> /\ IsSpace(Head(s)) THEN DropSpaces(Tail(s)) ELSE s

RECURSIVE DropSpacesRight(_)
\* s without its trailing white space
DropSpacesRight(s) ==
    IF s # <<>> /\ IsSpace(s[Len(s)])
    THEN DropSpacesRight(SubSeq(s, 1, Len(s) - 1)) ELSE s

RECURSIVE RemoveOpenFences(_)
\* re.sub of the pattern fence_json \s* by ''
RemoveOpenFences(s) ==
    IF s = <<>> THEN <<>>
    ELSE IF Head(s) = "fence_json" THEN RemoveOpenFences(DropSpaces(Tail(s)))
    ELSE <<Head(s)>> \o RemoveOpenFences(Tail(s))

RECURSIVE RemoveFences(_)
\* re.sub of the pattern \s* fence by ''
RemoveFences(s) ==
    IF s = <<>> THEN <<>>
    ELSE IF s[Len(s)] = "fence"
         THEN RemoveFences(DropSpacesRight(SubSeq(s, 1, Len(s) - 1)))
    ELSE RemoveFences(SubSeq(s, 1, Len(s) - 1)) \o <<s[Len(s)]>>

\* AnswerProcessor._clean_llm_response
clean_llm_response(text) ==
    DropSpacesRight(DropSpaces(RemoveFences(RemoveOpenFences(text))))

\* the messages of process_answer
InvalidJson == "Invalid JSON format in LLM response"
MissingFields == "Missing required fields in LLM response"
ErrorProcessing == "Error processing answer"

\* the ValueError of process_answer: err is its message up to the colon,
\* detail the message of the exception it wraps; evaluated and formatted
\* tell whether evaluate and format_number were called
NoAnswer(msg, detail) ==
    [ok |-> FALSE, text |-> <<>>, err |-> msg, detail |-> detail,
     evaluated |-> FALSE, formatted |-> FALSE]

\* process_answer, lines 55-61: r is the result of evaluate
FormatResult(r, format_dict) ==
    IF ~r.ok THEN [NoAnswer(ErrorProcessing, r.err) EXCEPT !.evaluated = TRUE]
    ELSE [ok |-> TRUE,
          text |-> format_number(r.v, parse_instructions(format_dict)),
          err |-> "", detail |-> "", evaluated |-> TRUE, formatted |-> TRUE]

\* process_answer, line 51: not (not formula or not format_dict); a missing
\* key gives None, and None, "" and {} are false
RequiredFields(response) ==
    /\ response.has_formula /\ response.formula # <<>>
    /\ response.has_format /\ response.format_dict.keys # {}

\* json.loads of the cleaned text: one JSON text, white space around it
\* allowed, and nothing else
IsJson(response, cleaned) ==
    response.valid_json /\ DropSpacesRight(DropSpaces(cleaned)) = <<"{}">>

\* a processing that evaluates the formula before it looks at the fields
ProcessEvaluateFirst(response, cleaned) ==
    IF ~IsJson(response, cleaned) THEN NoAnswer(InvalidJson, "")
    ELSE FormatResult(evaluate(response.formula), response.format_dict)

\* process_answer, lines 45-61: cleaned is the cleaned response
ProcessCleaned(response, cleaned) ==
    IF ~IsJson(response, cleaned) THEN NoAnswer(InvalidJson, "")
    ELSE IF ~RequiredFields(response) THEN NoAnswer(ErrorProcessing, MissingFields)
    ELSE FormatResult(evaluate(response.formula), response.format_dict)

\* A response is its text, and for the JSON text in it: valid_json (the
\* text is a JSON object), the value of 'formula' (has_formula) and the dict
\* of 'formatting_instructions' (has_format).
\* AnswerProcessor.process_answer: ok FALSE stands for the ValueError raised
process_answer(response) ==
    ProcessCleaned(response, clean_llm_response(response.text))

\* an element of processed_answers: None, or the formatted answer
None == [none |-> TRUE, text |-> <<>>]
Some(t) == [none |-> FALSE, text |-> t]

\* processed_answers.append(processed_answer), or append(None)
Processed(a) == IF a.ok THEN Some(a.text) ELSE None

RECURSIVE ProcessUntilFailure(_)
\* a loop over the responses that ends at the first failure
ProcessUntilFailure(responses) ==
    IF responses = <<>> THEN <<>>
    ELSE IF Processed(process_answer(Head(responses))).none THEN <<None>>
    ELSE <<Processed(process_answer(Head(responses)))>>
         \o ProcessUntilFailure(Tail(responses))

\* process_dataset: the loop "for response in llm_responses", which appends
\* the processed answer, or None when process_answer raised
ProcessResponses(responses) ==
    [i \in 1..Len(responses) |-> Processed(process_answer(responses[i]))]

RECURSIVE PairsOf(_, _)
\* zip(expected_answers, processed_answers) without the None
PairsOf(expected, processed) ==
    IF expected = <<>> \/ processed = <<>> THEN <<>>
    ELSE (IF Head(processed).none THEN <<>>
          ELSE <<<<Head(processed).text, Head(expected)>>>>)
         \o PairsOf(Tail(expected), Tail(processed))

RECURSIVE EvaluationPairs(_)
\* process_dataset: evaluation_pairs of all_results
EvaluationPairs(results) ==
    IF results = <<>> THEN <<>>
    ELSE PairsOf(Head(results).expected_answers, Head(results).processed_answers)
         \o EvaluationPairs(Tail(results))

(***************************************************************************)
(* State                                                                   *)
(***************************************************************************)
VARIABLES
    input,        \* evaluate: the expression given, as tree and trailing text
    expression,   \* evaluate: the local expression, rewritten in place
    pc,           \* evaluate: "start", "loop" or "done"
    result,       \* evaluate: what the call returned or raised
    last,         \* evaluate: func_name, args and result of the last pass
    number,       \* format_number: the number given
    instructions, \* format_number: the FormattingInstructions given
    answer,       \* the display string: given to parse_answer, or formatted
    parsed,       \* parse_answer: the ParsedAnswer returned, or the failure
    apc,          \* "format", "parse", "done"; "raw" and "rawdone" for a
                  \* string given to parse_answer directly
    pairs,        \* evaluate_batch: answer_pairs, (generated, expected)
    idx,          \* evaluate_batch: position of the for loop in pairs
    acc,          \* evaluate_batch: format_counts, total_smape,
                  \* valid_comparisons, and the last comparison made
    compared,     \* evaluate_batch: the positions whose pair was compared
    metrics,      \* evaluate_batch: the dict returned
    bpc,          \* evaluate_batch: "start", "loop", "done" or "crashed"
    entries,      \* process_dataset: the entries loaded
    next_entry,   \* process_dataset: position of the for loop in entries
    all_results,  \* process_dataset: the entry_results stored
    processed_questions, \* process_dataset: the counter of that name
    answers,      \* get_answers: the answers appended so far
    sending,      \* get_answers: the position in _send_message_with_retry
                  \* ("check", "send", "backoff") and its retry_count
    loop_end,     \* process_dataset: how the loop over entries ended
    dpc,          \* process_dataset: "start", "declined", "entries",
                  \* "answers" (in get_answers), "returned", "stored",
                  \* "raised", "evaluate", "batch", "saved", "cancelled"
    response,     \* process_answer: the response given
    outcome,      \* process_answer: the answer returned, or the error
    formatting,   \* parse_instructions: the FormattingInstructions returned
    failed,       \* the number of calls of process_answer that raised
    ppc,          \* "start", "done" (process_answer returned or raised),
                  \* "parsed" (parse_instructions returned)
    instance,     \* threads: the fields of the objects the calls are made on
    calls,        \* threads: per thread the operation called, its argument,
                  \* the argument as given, the position and the result
    locals,       \* threads: per call frame the local variables of the call
    config,       \* LLMInterface.config: rpm, daily_limit, max_retries,
                  \* retry_delay
    llm,          \* LLMInterface: requests, daily_requests, last_reset_date
    clock,        \* time.time(), in seconds
    today,        \* date.today(), in days
    call,         \* per coroutine, its call of _send_message_with_retry:
                  \* position, retry_count, the exception caught, the
                  \* time read, the end of its sleep, what it did so far
    sent_at,      \* the times of the messages sent in the last 60 seconds
    quota         \* what get_remaining_quota returns, in the step that
                  \* calls it

evalVars == <<input, expression, pc, result, last>>
answerVars == <<number, instructions, answer, parsed, apc>>
batchVars == <<pairs, idx, acc, compared, metrics, bpc>>
datasetVars == <<entries, next_entry, all_results, processed_questions,
                 answers, sending, loop_end, dpc>>
processVars == <<response, outcome, formatting, failed, ppc>>
threadVars == <<instance, calls, locals>>
llmVars == <<config, llm, clock, today, call, sent_at, quota>>
vars == <<input, expression, pc, result, last,
          number, instructions, answer, parsed, apc,
          pairs, idx, acc, compared, metrics, bpc,
          entries, next_entry, all_results, processed_questions,
          answers, sending, loop_end, dpc,
          response, outcome, formatting, failed, ppc,
          instance, calls, locals,
          config, llm, clock, today, call, sent_at, quota>>

NoResult == [kind |-> "none", v |-> NaN, err |-> "", name |-> <<>>]
Returned(v) == [kind |-> "value", v |-> v, err |-> "", name |-> <<>>]
Raised(msg, name) == [kind |-> "error", v |-> NaN, err |-> msg, name |-> name]

NoInstructions == [prefix |-> <<>>, suffix |-> <<>>, rounding |-> 0, multiplier |-> One]

EvalIdle ==
    /\ input = [tree |-> Leaf(<<"0">>), tail |-> <<>>]
    /\ expression = <<>>
    /\ pc = "idle"
    /\ result = NoResult
    /\ last = NoCall

AnswerIdle ==
    /\ number = Zero
    /\ instructions = NoInstructions
    /\ answer = <<>>
    /\ parsed = NoParse
    /\ apc = "idle"

BatchIdle ==
    /\ pairs = <<>>
    /\ idx = 0
    /\ acc = BatchStart
    /\ compared = {}
    /\ metrics = EmptyMetrics
    /\ bpc = "idle"

DatasetIdle ==
    /\ entries = <<>>
    /\ next_entry = 0
    /\ all_results = <<>>
    /\ processed_questions = 0
    /\ answers = <<>>
    /\ sending = [pc |-> "idle", retry_count |-> 0]
    /\ loop_end = "none"
    /\ dpc = "idle"

NoOutcome == NoAnswer("", "")
NoResponse ==
    [text |-> <<>>, valid_json |-> FALSE, has_formula |-> FALSE, formula |-> <<>>,
     has_format |-> FALSE,
     format_dict |-> [keys |-> {}, prefix |-> <<>>, suffix |-> <<>>,
                      rounding |-> 0, multiplier |-> Zero]]

ProcessIdle ==
    /\ response = NoResponse
    /\ outcome = NoOutcome
    /\ formatting = NoInstructions
    /\ failed = 0
    /\ ppc = "idle"

\* the fields set by the constructors: ExpressionEvaluator.operations
Constructed == [operations |-> operations]

ThreadIdle ==
    /\ instance = Constructed
    /\ calls = <<>>
    /\ locals = <<>>

\* LLMConfig: rpm, daily_limit, max_retries and retry_delay as declared
LLMConfig == [rpm |-> 10, daily_limit |-> 1500, max_retries |-> 3, retry_delay |-> 60]
\* LLMInterface.__init__: the rate limiting state on the date d
Interface(d) == [requests |-> <<>>, daily_requests |-> 0, last_reset_date |-> d]
\* the coroutines that call the one interface
Callers == {1, 2}
\* a call of _send_message_with_retry: current_time is the time read at
\* line 98, wake the time at which its asyncio.sleep ends
NoSend ==
    [pc |-> "idle", retry_count |-> 0, error |-> <<>>, attempts |-> 0,
     waits |-> <<>>, limit_reached |-> FALSE, current_time |-> 0, wake |-> 0]
NoQuota == [daily_remaining |-> 0, minute_remaining |-> 0]

LlmIdle ==
    /\ config = LLMConfig
    /\ llm = Interface(0)
    /\ clock = 0
    /\ today = 0
    /\ call = [c \in Callers |-> NoSend]
    /\ sent_at = <<>>
    /\ quota = NoQuota

EvalInit ==
    /\ input \in EvalInputs
    /\ expression = InputText(input)
    /\ pc = "start"
    /\ result = NoResult
    /\ last = NoCall
    /\ AnswerIdle
    /\ BatchIdle
    /\ DatasetIdle
    /\ ProcessIdle
    /\ ThreadIdle
    /\ LlmIdle

\* evaluate, up to the loop: remove the spaces, return a bare number at once
EvaluateEnter ==
    /\ pc = "start"
    /\ LET e == RemoveSpaces(expression)
       IN  /\ expression' = e
           /\ IF Float(e).ok
              THEN pc' = "done" /\ result' = Returned(Float(e).v)
              ELSE pc' = "loop" /\ result' = result
    /\ UNCHANGED <<input, last>>
    /\ UNCHANGED <<answerVars, batchVars, datasetVars, processVars, threadVars, llmVars>>

\* evaluate: one pass of the while loop
EvaluateLoop ==
    /\ pc = "loop"
    /\ LET b == LoopBody(expression)
       IN  /\ expression' = b.e
           /\ last' = b.call
           /\ pc' = IF b.st = "loop" THEN "loop" ELSE "done"
           /\ result' = CASE b.st = "loop" -> result
                          [] b.st = "value" -> Returned(b.v)
                          [] b.st = "error" -> Raised(b.err, b.name)
    /\ UNCHANGED input
    /\ UNCHANGED <<answerVars, batchVars, datasetVars, processVars, threadVars, llmVars>>

EvalNext == EvaluateEnter \/ EvaluateLoop

SpecEval == EvalInit /\ [][EvalNext]_vars

(***************************************************************************)
(* Formatting a number and parsing a display string                        *)
(***************************************************************************)
\* numbers given to format_number: results of evaluate
FormatNumbers ==
    {Fin(n, 8) : n \in {0 - 40, 0 - 1, 0, 1, 3, 4, 6, 12, 20, 9877}}
    \cup {PosInf, NegInf, NaN, NegZero}
Multipliers == {One, Fin(100, 1)}
MaxRounding == 2
Prefixes == {<<>>, <<"$">>, <<"-">>, <<" ", "$">>, <<"$", " ">>, <<"v", "1", ".">>}
Suffixes == {<<>>, <<"%">>, <<" ", "m", "2">>, <<"%", " ">>, <<"-">>, <<".">>}
Instructions ==
    [prefix : Prefixes, suffix : Suffixes, rounding : 0..MaxRounding,
     multiplier : Multipliers]

\* display strings given to parse_answer directly: every string up to
\* MaxAnswerLen over AnswerChars, and some longer ones
AnswerChars == {"$", "5", "0", ".", "-", " "}
MaxAnswerLen == 3
RECURSIVE Strings(_)
Strings(k) ==
    IF k = 0 THEN {<<>>}
    ELSE Strings(k - 1)
         \cup {Append(t, c) : t \in {u \in Strings(k - 1) : Len(u) = k - 1},
                               c \in AnswerChars}
LongAnswers ==
    {<<"a", "b", "c">>, <<"$", "1", "0", "3", ".", "1", "0", "%">>,
     <<"1", ",", "0", "0", "0", ".", "5", "0">>, <<"1", "e", "4", "0", "0">>,
     <<"$", " ", "-", "5", " ", "%">>, <<"$", "1", "-", "2">>,
     <<" ", "1", ".", "2", "5", " ", "m", " ">>, <<"+", "5">>}
RawAnswers == Strings(MaxAnswerLen) \cup LongAnswers

AnswerInit ==
    /\ EvalIdle
    /\ BatchIdle
    /\ DatasetIdle
    /\ ProcessIdle
    /\ ThreadIdle
    /\ LlmIdle
    /\ parsed = NoParse
    /\ \/ /\ apc = "format"
          /\ number \in FormatNumbers
          /\ instructions \in Instructions
          /\ answer = <<>>
       \/ /\ apc = "raw"
          /\ number = Zero
          /\ instructions = NoInstructions
          /\ answer \in RawAnswers

\* AnswerFormatter.format_number(number, instructions)
FormatNumber ==
    /\ apc = "format"
    /\ answer' = format_number(number, instructions)
    /\ apc' = "parse"
    /\ UNCHANGED <<number, instructions, parsed>>
    /\ UNCHANGED <<evalVars, batchVars, datasetVars, processVars, threadVars, llmVars>>

\* AnswerEvaluator.parse_answer on the formatted string
ParseFormatted ==
    /\ apc = "parse"
    /\ parsed' = parse_answer(answer)
    /\ apc' = "done"
    /\ UNCHANGED <<number, instructions, answer>>
    /\ UNCHANGED <<evalVars, batchVars, datasetVars, processVars, threadVars, llmVars>>

\* AnswerEvaluator.parse_answer on a given string
ParseRaw ==
    /\ apc = "raw"
    /\ parsed' = parse_answer(answer)
    /\ apc' = "rawdone"
    /\ UNCHANGED <<number, instructions, answer>>
    /\ UNCHANGED <<evalVars, batchVars, datasetVars, processVars, threadVars, llmVars>>

AnswerNext == FormatNumber \/ ParseFormatted \/ ParseRaw

SpecAnswer == AnswerInit /\ [][AnswerNext]_vars

(***************************************************************************)
(* Evaluating a batch of answer pairs                                      *)
(***************************************************************************)
\* (generated, expected) pairs given to evaluate_batch
BatchPairs ==
    {<<<<"$", "1", ".", "5", "0">>, <<"$", "1", ".", "5", "0">>>>,
     <<<<"1", ".", "5">>, <<"2", ".", "5">>>>,
     <<<<"a", "b", "c">>, <<"5", ".", "0">>>>,
     <<<<"5", ".", "0">>, <<"a", "b", "c">>>>,
     <<<<"0">>, <<"0", ".", "0">>>>,
     <<<<"0">>, <<"5", "%">>>>,
     <<<<"-", "2">>, <<"$", "2">>>>,
     <<<<"1", "e", "4", "0", "0">>, <<"1">>>>,
     <<<<"1", "%">>, <<"3", "%">>>>,
     <<<<"1", ".", "5", "e", "3">>, <<"1", "5", "0", "0", ".", "0", "0">>>>,
     <<<<"U", "5">>, <<"u", "5">>>>}
MaxPairs == 3
RECURSIVE PairLists(_)
PairLists(k) ==
    IF k = 0 THEN {<<>>}
    ELSE PairLists(k - 1)
         \cup {Append(l, p) : l \in {m \in PairLists(k - 1) : Len(m) = k - 1},
                               p \in BatchPairs}

BatchInit ==
    /\ EvalIdle
    /\ AnswerIdle
    /\ DatasetIdle
    /\ ProcessIdle
    /\ ThreadIdle
    /\ LlmIdle
    /\ pairs \in PairLists(MaxPairs)
    /\ idx = 0
    /\ acc = BatchStart
    /\ compared = {}
    /\ metrics = EmptyMetrics
    /\ bpc = "start"

\* evaluate_batch up to the loop: {} for no pair, else the counters at zero
BatchEnter ==
    /\ bpc = "start"
    /\ IF Len(pairs) = 0
       THEN metrics' = EmptyMetrics /\ bpc' = "done" /\ idx' = idx
       ELSE metrics' = metrics /\ bpc' = "loop" /\ idx' = 1
    /\ acc' = BatchStart
    /\ compared' = {}
    /\ UNCHANGED pairs
    /\ UNCHANGED <<evalVars, answerVars, datasetVars, processVars, threadVars, llmVars>>

\* evaluate_batch: one pass of the for loop
BatchIterate ==
    /\ bpc = "loop"
    /\ idx <= Len(pairs)
    /\ acc' = BatchBody(acc, pairs[idx])
    /\ compared' = IF acc'.results.ok THEN compared \cup {idx} ELSE compared
    /\ bpc' = IF acc'.results.crash THEN "crashed" ELSE "loop"
    /\ idx' = IF acc'.results.crash THEN idx ELSE idx + 1
    /\ UNCHANGED <<pairs, metrics>>
    /\ UNCHANGED <<evalVars, answerVars, datasetVars, processVars, threadVars, llmVars>>

\* evaluate_batch after the loop: the metrics
BatchFinish ==
    /\ bpc = "loop"
    /\ idx > Len(pairs)
    /\ metrics' = BatchMetrics(acc, Len(pairs))
    /\ bpc' = "done"
    /\ UNCHANGED <<pairs, idx, acc, compared>>
    /\ UNCHANGED <<evalVars, answerVars, datasetVars, processVars, threadVars, llmVars>>

BatchNext == BatchEnter \/ BatchIterate \/ BatchFinish

SpecBatch == BatchInit /\ [][BatchNext]_vars

(***************************************************************************)
(* Processing the dataset                                                  *)
(***************************************************************************)
QA(q, a) == [question |-> q, answer |-> a]
Entry1 == [entry_id |-> 1,
           qa_pairs |-> <<QA(1, <<"$", "0", ".", "5", "0">>), QA(2, <<"n", "/", "a">>)>>]
Entry2 == [entry_id |-> 2, qa_pairs |-> <<QA(3, <<"1", "5", "0", "%">>)>>]
\* the entries loaded by DataLoader.load_data
Datasets ==
    {<<Entry2>>, <<Entry1, Entry2>>, <<Entry2, Entry1>>}

Dict(keys, prefix, suffix, rounding, multiplier) ==
    [keys |-> keys, prefix |-> prefix, suffix |-> suffix, rounding |-> rounding,
     multiplier |-> multiplier]
\* the text of a response in a fenced block
Fenced == <<"fence_json", "\n", "{}", "\n", "fence">>
Response(formula, format_dict) ==
    [text |-> Fenced, valid_json |-> TRUE, has_formula |-> TRUE,
     formula |-> formula, has_format |-> TRUE, format_dict |-> format_dict]
\* {"formula": "divide(1, 2)", "formatting_instructions": {"prefix": "$"}}
Dollars ==
    Response(DIVIDE \o <<"(", "1", ",", " ", "2", ")">>,
             Dict({"prefix"}, <<"$">>, <<>>, 0, Zero))
\* {"formula": "subtract(2, 0.5)", "formatting_instructions":
\*  {"suffix": "%", "rounding": 0, "multiplier": 100}}
Percent ==
    Response(SUBTRACT \o <<"(", "2", ",", " ", "0", ".", "5", ")">>,
             Dict({"suffix", "rounding", "multiplier"}, <<>>, <<"%">>, 0, Fin(100, 1)))
\* {"formula": "exp(0, -1)", "formatting_instructions": {"prefix": "$"}}
Raising ==
    Response(EXP \o <<"(", "0", ",", " ", "-", "1", ")">>,
             Dict({"prefix"}, <<"$">>, <<>>, 0, Zero))
\* a text that is no JSON
NotJson == [Response(<<>>, Dict({}, <<>>, <<>>, 0, Zero)) EXCEPT !.valid_json = FALSE]
\* the texts returned by the model
Responses == {Dollars, Percent, Raising, NotJson}


(***************************************************************************)
(* process_answer and parse_instructions on the responses of the model     *)
(***************************************************************************)
\* texts around the JSON text: a fenced block, the bare text, a block with
\* plain fences, white space around the fences, prose before the JSON text,
\* an empty block
Texts ==
    {Fenced, <<"{}">>, <<"fence", "\n", "{}", "\n", "fence">>,
     <<" ", "fence_json", " ", "{}", " ", "fence", "\n">>,
     <<"x", " ", "{}">>, <<"fence_json", "\n", "fence">>}
\* the values of 'formula': "", "add(1, 2.5)", "exp(0, -1)"
Formulas ==
    {<<>>, ADD \o <<"(", "1", ",", " ", "2", ".", "5", ")">>,
     EXP \o <<"(", "0", ",", " ", "-", "1", ")">>}
FieldNames == {"prefix", "suffix", "rounding", "multiplier"}
\* the dicts of 'formatting_instructions': any of the four fields, with
\* values that are not the defaults
FormatDicts ==
    {Dict(keys, IF "prefix" \in keys THEN <<"$">> ELSE <<>>,
          IF "suffix" \in keys THEN <<"%">> ELSE <<>>,
          IF "rounding" \in keys THEN 1 ELSE 0,
          IF "multiplier" \in keys THEN Fin(100, 1) ELSE Zero)
        : keys \in SUBSET FieldNames}
NoDict == Dict({}, <<>>, <<>>, 0, Zero)
\* the responses: every text around a complete response, a text that is no
\* JSON, and a fenced block with any of the keys and fields missing
LLMResponses ==
    {[Percent EXCEPT !.text = t] : t \in Texts}
    \cup {NotJson}
    \cup {[text |-> Fenced, valid_json |-> TRUE,
           has_formula |-> hf, formula |-> IF hf THEN f ELSE <<>>,
           has_format |-> hd, format_dict |-> IF hd THEN d ELSE NoDict]
          : hf \in BOOLEAN, f \in Formulas, hd \in BOOLEAN, d \in FormatDicts}
\* calls of process_answer that raise, at most
MaxFailed == 2

ProcessInit ==
    /\ response \in LLMResponses
    /\ outcome = NoOutcome
    /\ formatting = NoInstructions
    /\ failed = 0
    /\ ppc = "start"
    /\ EvalIdle
    /\ AnswerIdle
    /\ BatchIdle
    /\ DatasetIdle
    /\ ThreadIdle
    /\ LlmIdle

\* processor.process_answer(response)
ProcessAnswer ==
    /\ ppc = "start"
    /\ outcome' = process_answer(response)
    /\ failed' = IF outcome'.ok THEN failed ELSE failed + 1
    /\ ppc' = "done"
    /\ UNCHANGED <<response, formatting>>
    /\ UNCHANGED <<evalVars, answerVars, batchVars, datasetVars, threadVars, llmVars>>

\* formatter.parse_instructions(format_dict), called directly on the dict
ParseInstructions ==
    /\ ppc = "start"
    /\ response.has_format
    /\ formatting' = parse_instructions(response.format_dict)
    /\ ppc' = "parsed"
    /\ UNCHANGED <<response, outcome, failed>>
    /\ UNCHANGED <<evalVars, answerVars, batchVars, datasetVars, threadVars, llmVars>>

\* the next response is given to the same processor
NextResponse ==
    /\ ppc \in {"done", "parsed"}
    /\ failed < MaxFailed
    /\ response' \in LLMResponses
    /\ outcome' = NoOutcome
    /\ formatting' = NoInstructions
    /\ ppc' = "start"
    /\ UNCHANGED failed
    /\ UNCHANGED <<evalVars, answerVars, batchVars, datasetVars, threadVars, llmVars>>

ProcessNext == ProcessAnswer \/ ParseInstructions \/ NextResponse

SpecProcess == ProcessInit /\ [][ProcessNext]_vars

(***************************************************************************)
(* Calls of the core operations from several threads on the same objects   *)
(***************************************************************************)
Threads == {1, 2}

\* add(1, multiply(2, 0.5)), exp(0, -1), divide(-1, 0), 0.5
EvaluateArguments ==
    {Render(Call(ADD, <<Leaf(<<"1">>),
                        Call(MULTIPLY, <<Leaf(<<"2">>), Leaf(<<"0", ".", "5">>)>>)>>)),
     Render(Call(EXP, <<Leaf(<<"0">>), Leaf(<<"-", "1">>)>>)),
     Render(Call(DIVIDE, <<Leaf(<<"-", "1">>), Leaf(<<"0">>)>>)),
     <<"0", ".", "5">>}
\* the calls made: an operation and its argument
CoreCalls ==
    {[op |-> "evaluate", arg |-> e] : e \in EvaluateArguments}
    \cup {[op |-> "format_number", arg |-> <<Fin(9877, 8), i>>]
            : i \in {parse_instructions(d) : d \in {Dollars.format_dict, Percent.format_dict}}}
    \cup {[op |-> "parse_instructions", arg |-> Percent.format_dict]}
    \cup {[op |-> "parse_answer", arg |-> a]
            : a \in {<<"$", "1", ".", "5", "0">>, <<"a", "b", "c">>}}
    \cup {[op |-> "compare_answers", arg |-> p]
            : p \in {<<<<"1", ".", "5">>, <<"2", ".", "5">>>>,
                     <<<<"a", "b", "c">>, <<"5", ".", "0">>>>}}
    \cup {[op |-> "evaluate_batch", arg |-> l]
            : l \in {<<>>,
                     <<<<<<"1", ".", "5">>, <<"2", ".", "5">>>>,
                       <<<<"a", "b", "c">>, <<"5", ".", "0">>>>,
                       <<<<"1", "%">>, <<"3", "%">>>>>>}}

\* the local variables of a call before it sets them
NoLocals == [expression |-> <<>>, idx |-> 0, acc |-> BatchStart]
\* a frame in which every call of the process keeps its local variables
SharedFrame(t) == 1
\* the frame of the call made by thread t: local variables are per call
Frame(t) == t

\* the operations that return in one step
Apply(op, arg) ==
    CASE op = "format_number" -> format_number(arg[1], arg[2])
      [] op = "parse_instructions" -> parse_instructions(arg)
      [] op = "parse_answer" -> parse_answer(arg)
      [] op = "compare_answers" -> compare_answers(arg[1], arg[2])

OneStep == {"format_number", "parse_instructions", "parse_answer", "compare_answers"}

ThreadInit ==
    /\ instance = Constructed
    /\ calls \in [Threads -> {[op |-> c.op, arg |-> c.arg, given |-> c.arg,
                               pc |-> "start", result |-> <<>>] : c \in CoreCalls}]
    /\ locals = [t \in Threads |-> NoLocals]
    /\ EvalIdle
    /\ AnswerIdle
    /\ BatchIdle
    /\ DatasetIdle
    /\ ProcessIdle
    /\ LlmIdle

\* what a pass of evaluate returns or raises
PassResult(b) == [ok |-> b.st = "value", v |-> b.v, err |-> b.err]

\* format_number, parse_instructions, parse_answer, compare_answers
ThreadCall(t) ==
    /\ calls[t].pc = "start"
    /\ calls[t].op \in OneStep
    /\ calls' = [calls EXCEPT ![t].pc = "done",
                              ![t].result = Apply(calls[t].op, calls[t].arg)]
    /\ UNCHANGED <<instance, locals>>
    /\ UNCHANGED <<evalVars, answerVars, batchVars, datasetVars, processVars, llmVars>>

\* evaluate up to the loop, evaluate_batch up to the loop
ThreadEnter(t) ==
    /\ calls[t].pc = "start"
    /\ calls[t].op \notin OneStep
    /\ IF calls[t].op = "evaluate"
       THEN /\ locals' = [locals EXCEPT ![Frame(t)].expression =
                                            RemoveSpaces(calls[t].arg)]
            /\ calls' = IF Float(RemoveSpaces(calls[t].arg)).ok
                        THEN [calls EXCEPT ![t].pc = "done",
                                  ![t].result =
                                      [ok |-> TRUE,
                                       v |-> Float(RemoveSpaces(calls[t].arg)).v,
                                       err |-> ""]]
                        ELSE [calls EXCEPT ![t].pc = "loop"]
       ELSE /\ locals' = [locals EXCEPT ![Frame(t)].idx = 1,
                                        ![Frame(t)].acc = BatchStart]
            /\ calls' = IF Len(calls[t].arg) = 0
                        THEN [calls EXCEPT ![t].pc = "done",
                                           ![t].result = EmptyMetrics]
                        ELSE [calls EXCEPT ![t].pc = "loop"]
    /\ UNCHANGED instance
    /\ UNCHANGED <<evalVars, answerVars, batchVars, datasetVars, processVars, llmVars>>

\* the state of thread t after the pass b of the loop of evaluate
AfterPass(t, b) ==
    /\ locals' = [locals EXCEPT ![Frame(t)].expression = b.e]
    /\ calls' = IF b.st = "loop" THEN calls
                ELSE [calls EXCEPT ![t].pc = "done", ![t].result = PassResult(b)]

\* evaluate: one pass of the while loop, reading self.operations
ThreadPass(t) ==
    /\ calls[t].pc = "loop"
    /\ calls[t].op = "evaluate"
    /\ instance.operations = operations
    /\ AfterPass(t, LoopBody(locals[Frame(t)].expression))
    /\ UNCHANGED instance
    /\ UNCHANGED <<evalVars, answerVars, batchVars, datasetVars, processVars, llmVars>>

\* evaluate_batch: one pass of the for loop
ThreadIterate(t) ==
    /\ calls[t].pc = "loop"
    /\ calls[t].op = "evaluate_batch"
    /\ locals[Frame(t)].idx \in 1..Len(calls[t].arg)
    /\ locals' = [locals EXCEPT
                    ![Frame(t)].acc = BatchBody(locals[Frame(t)].acc,
                                                calls[t].arg[locals[Frame(t)].idx]),
                    ![Frame(t)].idx = locals[Frame(t)].idx + 1]
    /\ UNCHANGED <<instance, calls>>
    /\ UNCHANGED <<evalVars, answerVars, batchVars, datasetVars, processVars, llmVars>>

\* evaluate_batch after the loop: the metrics
ThreadFinish(t) ==
    /\ calls[t].pc = "loop"
    /\ calls[t].op = "evaluate_batch"
    /\ locals[Frame(t)].idx \notin 1..Len(calls[t].arg)
    /\ calls' = [calls EXCEPT ![t].pc = "done",
                    ![t].result = BatchMetrics(locals[Frame(t)].acc, Len(calls[t].arg))]
    /\ UNCHANGED <<instance, locals>>
    /\ UNCHANGED <<evalVars, answerVars, batchVars, datasetVars, processVars, llmVars>>

ThreadNext ==
    \E t \in Threads :
        \/ ThreadCall(t)
        \/ ThreadEnter(t)
        \/ ThreadPass(t)
        \/ ThreadIterate(t)
        \/ ThreadFinish(t)

SpecThreads == ThreadInit /\ [][ThreadNext]_vars

(***************************************************************************)
(* LLMInterface: rate limits, daily limit and retries                      *)
(***************************************************************************)
\* the 60 seconds of _check_rate_limits and get_remaining_quota
Window == 60
\* the time that passes between two calls, in seconds
TickSeconds == 20
\* time and dates end here
MaxClock == 80
MaxDate == 1

UpperCase ==
    <<"A", "B", "C", "D", "E", "F", "G", "H", "I", "J", "K", "L", "M",
      "N", "O", "P", "Q", "R", "S", "T", "U", "V", "W", "X", "Y", "Z">>
LowerCase ==
    <<"a", "b", "c", "d", "e", "f", "g", "h", "i", "j", "k", "l", "m",
      "n", "o", "p", "q", "r", "s", "t", "u", "v", "w", "x", "y", "z">>
\* str.lower()
Lower(s) ==
    [i \in 1..Len(s) |->
        IF \E k \in 1..26 : UpperCase[k] = s[i]
        THEN LowerCase[CHOOSE k \in 1..26 : UpperCase[k] = s[i]]
        ELSE s[i]]

\* f"Daily request limit of {self.config.daily_limit} reached"
DailyLimitMessage(limit) ==
    <<"D", "a", "i", "l", "y", " ", "r", "e", "q", "u", "e", "s", "t",
      " ", "l", "i", "m", "i", "t", " ", "o", "f", " ">>
    \o NatToDigits(limit) \o
    <<" ", "r", "e", "a", "c", "h", "e", "d">>
\* f"Maximum retries ({self.config.max_retries}) exceeded for rate limit error"
MaxRetriesMessage(max_retries) ==
    <<"M", "a", "x", "i", "m", "u", "m", " ", "r", "e", "t", "r", "i",
      "e", "s", " ", "(">>
    \o NatToDigits(max_retries) \o
    <<")", " ", "e", "x", "c", "e", "e", "d", "e", "d", " ", "f", "o",
      "r", " ", "r", "a", "t", "e", " ", "l", "i", "m", "i", "t", " ",
      "e", "r", "r", "o", "r">>
\* the errors of send_message: two rate-limit errors and another error
TooManyRequests ==
    <<"4", "2", "9", " ", "T", "o", "o", " ", "M", "a", "n", "y", " ",
      "R", "e", "q", "u", "e", "s", "t", "s">>
ResourceExhausted ==
    <<"R", "e", "s", "o", "u", "r", "c", "e", " ", "e", "x", "h", "a",
      "u", "s", "t", "e", "d">>
ServerError ==
    <<"5", "0", "0", " ", "I", "n", "t", "e", "r", "n", "a", "l", " ",
      "e", "r", "r", "o", "r">>
ApiErrors == {TooManyRequests, ResourceExhausted, ServerError}

\* _send_message_with_retry, lines 135-138: the test of the message
IsRateLimitError(e) ==
    \/ Occurs(<<"4", "2", "9">>, Lower(e))
    \/ Occurs(<<"r", "e", "s", "o", "u", "r", "c", "e", " ", "e", "x", "h", "a", "u", "s", "t", "e", "d">>,
              Lower(e))

\* [t for t in self.requests if current_time - t < 60]
Recent(requests, current_time) ==
    SelectSeq(requests, LAMBDA t : current_time - t < Window)

\* _check_rate_limits, lines 101-104
ResetDaily(l, current_date) ==
    IF current_date # l.last_reset_date
    THEN [l EXCEPT !.daily_requests = 0, !.last_reset_date = current_date]
    ELSE l

\* _check_rate_limits, lines 114-119: the time slept
WaitTime(requests, current_time, rpm) ==
    IF Len(requests) >= rpm /\ Window - (current_time - requests[1]) > 0
    THEN Window - (current_time - requests[1])
    ELSE 0

\* _check_rate_limits, lines 107-116, on the interface l after the reset:
\* the daily limit is tested, the old timestamps are dropped and the time to
\* sleep is computed
CheckLimits(l, cfg, current_time) ==
    IF l.daily_requests >= cfg.daily_limit
    THEN [raised |-> TRUE, wait |-> 0, llm |-> l]
    ELSE [raised |-> FALSE,
          wait |-> WaitTime(Recent(l.requests, current_time), current_time, cfg.rpm),
          llm |-> [l EXCEPT !.requests = Recent(l.requests, current_time)]]

\* LLMInterface._check_rate_limits up to the await of line 118: raised
\* stands for the daily-limit exception, wait is the time to sleep
check_rate_limits(l, cfg, current_time, current_date) ==
    CheckLimits(ResetDaily(l, current_date), cfg, current_time)

\* _check_rate_limits, lines 121-122, after the sleep when there was one:
\* current_time is the time read at line 98
AddRequest(l, current_time) ==
    [l EXCEPT !.requests = Append(l.requests, current_time),
              !.daily_requests = l.daily_requests + 1]

\* LLMInterface.get_remaining_quota: the dict returned and the interface
get_remaining_quota(l, cfg, current_time, current_date) ==
    IF current_date # l.last_reset_date
    THEN [quota |-> [daily_remaining |-> cfg.daily_limit,
                     minute_remaining |-> cfg.rpm],
          llm |-> l]
    ELSE [quota |-> [daily_remaining |-> cfg.daily_limit - l.daily_requests,
                     minute_remaining |->
                         cfg.rpm - Len(Recent(l.requests, current_time))],
          llm |-> [l EXCEPT !.requests = Recent(l.requests, current_time)]]

\* the configurations: rpm, daily_limit, max_retries scaled down; a daily
\* limit of 429 with the other fields scaled down
Configs ==
    {[rpm |-> 2, daily_limit |-> 3, max_retries |-> 2, retry_delay |-> 20],
     [rpm |-> 2, daily_limit |-> 429, max_retries |-> 2, retry_delay |-> 20]}

\* requests made on the date 0 more than 60 seconds before time 0: none, or
\* all but one of a daily limit that is not scaled down
EarlierRequests(cfg) ==
    IF cfg.daily_limit <= LLMConfig.rpm THEN 0 ELSE cfg.daily_limit - 1

\* The interface at time 0 of the date 0
LlmInit ==
    /\ config \in Configs
    /\ llm = [Interface(0) EXCEPT !.daily_requests = EarlierRequests(config)]
    /\ clock = 0
    /\ today = 0
    /\ call = [c \in Callers |-> NoSend]
    /\ sent_at = <<>>
    /\ quota = NoQuota
    /\ EvalIdle
    /\ AnswerIdle
    /\ BatchIdle
    /\ DatasetIdle
    /\ ProcessIdle
    /\ ThreadIdle

\* the coroutine c is between two awaits: it has the event loop
Running(c) == call[c].pc \in {"check", "send", "except", "returned", "raised"}
\* the coroutine c waits in asyncio.sleep
Suspended(c) == call[c].pc \in {"sleeping", "backoff"}
\* the sleep of c is over
Due(c) == Suspended(c) /\ call[c].wake <= clock
\* no coroutine has the event loop
LoopFree == \A c \in Callers : ~Running(c)

\* time passes while no coroutine runs and no sleep is over
Tick ==
    /\ LoopFree
    /\ \A c \in Callers : ~Due(c)
    /\ clock + TickSeconds <= MaxClock
    /\ clock' = clock + TickSeconds
    /\ UNCHANGED <<config, llm, today, call, sent_at>>
    /\ quota' = NoQuota
    /\ UNCHANGED <<evalVars, answerVars, batchVars, datasetVars, processVars, threadVars>>

\* the date changes while no coroutine runs
Midnight ==
    /\ LoopFree
    /\ today < MaxDate
    /\ today' = today + 1
    /\ UNCHANGED <<config, llm, clock, call, sent_at>>
    /\ quota' = NoQuota
    /\ UNCHANGED <<evalVars, answerVars, batchVars, datasetVars, processVars, threadVars>>

\* get_answers calls _send_message_with_retry(prompt) with retry_count 0;
\* the coroutines are alike, the idle one of the lowest number calls
SendMessage(c) ==
    /\ LoopFree
    /\ call[c].pc = "idle"
    /\ \A b \in Callers : b < c => call[b].pc # "idle"
    /\ call' = [call EXCEPT ![c] = [NoSend EXCEPT !.pc = "check"]]
    /\ UNCHANGED <<config, llm, clock, today, sent_at>>
    /\ quota' = NoQuota
    /\ UNCHANGED <<evalVars, answerVars, batchVars, datasetVars, processVars, threadVars>>

\* the state after _check_rate_limits of c gave r: the exception, the
\* sleep of line 118, or lines 121-122 at once
AfterCheck(c, r) ==
    /\ clock + r.wait <= MaxClock
    /\ llm' = IF r.raised \/ r.wait > 0 THEN r.llm ELSE AddRequest(r.llm, clock)
    /\ call' = [call EXCEPT ![c] =
                   IF r.raised
                   THEN [call[c] EXCEPT !.pc = "except",
                                        !.error = DailyLimitMessage(config.daily_limit),
                                        !.attempts = call[c].attempts + 1,
                                        !.limit_reached = TRUE]
                   ELSE IF r.wait > 0
                   THEN [call[c] EXCEPT !.pc = "sleeping",
                                        !.attempts = call[c].attempts + 1,
                                        !.current_time = clock,
                                        !.wake = clock + r.wait]
                   ELSE [call[c] EXCEPT !.pc = "send",
                                        !.attempts = call[c].attempts + 1]]

\* _send_message_with_retry, line 128: await self._check_rate_limits(), up
\* to its sleep or its end
CheckRateLimits(c) ==
    /\ call[c].pc = "check"
    /\ AfterCheck(c, check_rate_limits(llm, config, clock, today))
    /\ UNCHANGED <<config, clock, today, sent_at>>
    /\ quota' = NoQuota
    /\ UNCHANGED <<evalVars, answerVars, batchVars, datasetVars, processVars, threadVars>>

\* _check_rate_limits, lines 118-122: the sleep is over, the request is added
RequestAdded(c) ==
    /\ LoopFree
    /\ call[c].pc = "sleeping"
    /\ Due(c)
    /\ llm' = AddRequest(llm, call[c].current_time)
    /\ call' = [call EXCEPT ![c] = [call[c] EXCEPT !.pc = "send",
                                                   !.current_time = 0,
                                                   !.wake = 0]]
    /\ UNCHANGED <<config, clock, today, sent_at>>
    /\ quota' = NoQuota
    /\ UNCHANGED <<evalVars, answerVars, batchVars, datasetVars, processVars, threadVars>>

\* _send_message_with_retry, lines 131-132: the message is sent and answered
SendReturns(c) ==
    /\ call[c].pc = "send"
    /\ sent_at' = Append(Recent(sent_at, clock), clock)
    /\ call' = [call EXCEPT ![c] = [call[c] EXCEPT !.pc = "returned"]]
    /\ UNCHANGED <<config, llm, clock, today>>
    /\ quota' = NoQuota
    /\ UNCHANGED <<evalVars, answerVars, batchVars, datasetVars, processVars, threadVars>>

\* _send_message_with_retry, line 131: the message is sent and the API raises
SendRaises(c) ==
    /\ call[c].pc = "send"
    /\ sent_at' = Append(Recent(sent_at, clock), clock)
    /\ \E e \in ApiErrors :
          call' = [call EXCEPT ![c] = [call[c] EXCEPT !.pc = "except", !.error = e]]
    /\ UNCHANGED <<config, llm, clock, today>>
    /\ quota' = NoQuota
    /\ UNCHANGED <<evalVars, answerVars, batchVars, datasetVars, processVars, threadVars>>

\* _send_message_with_retry, lines 138-145: a rate-limit error with a retry
\* left, the call sleeps for the delay
Retry(c) ==
    /\ call[c].pc = "except"
    /\ IsRateLimitError(call[c].error)
    /\ call[c].retry_count < config.max_retries
    /\ clock + config.retry_delay * IntPow(2, call[c].retry_count) <= MaxClock
    /\ call' = [call EXCEPT ![c] =
                   [call[c] EXCEPT
                       !.pc = "backoff",
                       !.wake = clock + config.retry_delay * IntPow(2, call[c].retry_count),
                       !.waits = Append(call[c].waits,
                                        config.retry_delay * IntPow(2, call[c].retry_count))]]
    /\ UNCHANGED <<config, llm, clock, today, sent_at>>
    /\ quota' = NoQuota
    /\ UNCHANGED <<evalVars, answerVars, batchVars, datasetVars, processVars, threadVars>>

\* _send_message_with_retry, lines 145-151: the sleep is over, the requests
\* are cleared and the call is made again with retry_count + 1
CallAgain(c) ==
    /\ LoopFree
    /\ call[c].pc = "backoff"
    /\ Due(c)
    /\ llm' = [llm EXCEPT !.requests = <<>>]
    /\ call' = [call EXCEPT ![c] = [call[c] EXCEPT !.pc = "check",
                                                   !.retry_count = call[c].retry_count + 1,
                                                   !.wake = 0]]
    /\ UNCHANGED <<config, clock, today, sent_at>>
    /\ quota' = NoQuota
    /\ UNCHANGED <<evalVars, answerVars, batchVars, datasetVars, processVars, threadVars>>

\* _send_message_with_retry, lines 152-153: no retry is left
GiveUp(c) ==
    /\ call[c].pc = "except"
    /\ IsRateLimitError(call[c].error)
    /\ call[c].retry_count >= config.max_retries
    /\ call' = [call EXCEPT ![c] =
                   [call[c] EXCEPT !.pc = "raised",
                                   !.error = MaxRetriesMessage(config.max_retries)]]
    /\ UNCHANGED <<config, llm, clock, today, sent_at>>
    /\ quota' = NoQuota
    /\ UNCHANGED <<evalVars, answerVars, batchVars, datasetVars, processVars, threadVars>>

\* _send_message_with_retry, lines 154-156: another error is raised again
Reraise(c) ==
    /\ call[c].pc = "except"
    /\ ~IsRateLimitError(call[c].error)
    /\ call' = [call EXCEPT ![c] = [call[c] EXCEPT !.pc = "raised"]]
    /\ UNCHANGED <<config, llm, clock, today, sent_at>>
    /\ quota' = NoQuota
    /\ UNCHANGED <<evalVars, answerVars, batchVars, datasetVars, processVars, threadVars>>

\* get_answers takes the response, or wraps the exception and raises it
Complete(c) ==
    /\ call[c].pc \in {"returned", "raised"}
    /\ call' = [call EXCEPT ![c] = NoSend]
    /\ UNCHANGED <<config, llm, clock, today, sent_at>>
    /\ quota' = NoQuota
    /\ UNCHANGED <<evalVars, answerVars, batchVars, datasetVars, processVars, threadVars>>

\* the state after get_remaining_quota gave r
AfterQuota(r) == quota' = r.quota /\ llm' = r.llm

\* llm.get_remaining_quota(), while no coroutine of the interface runs
GetRemainingQuota ==
    /\ LoopFree
    /\ AfterQuota(get_remaining_quota(llm, config, clock, today))
    /\ UNCHANGED <<config, clock, today, call, sent_at>>
    /\ UNCHANGED <<evalVars, answerVars, batchVars, datasetVars, processVars, threadVars>>

LlmNext ==
    \/ Tick
    \/ Midnight
    \/ GetRemainingQuota
    \/ \E c \in Callers :
          \/ SendMessage(c)
          \/ CheckRateLimits(c)
          \/ RequestAdded(c)
          \/ SendReturns(c)
          \/ SendRaises(c)
          \/ Retry(c)
          \/ CallAgain(c)
          \/ GiveUp(c)
          \/ Reraise(c)
          \/ Complete(c)

SpecLlm == LlmInit /\ [][LlmNext]_vars

(***************************************************************************)
(* process_dataset                                                         *)
(***************************************************************************)
\* LLMConfig.daily_limit, scaled down
DailyLimit == 2
\* LLMConfig.max_retries, scaled down
MaxExtraSends == 1
\* the configuration of LLMInterface(): the defaults, two of them scaled down
DatasetConfig ==
    [LLMConfig EXCEPT !.daily_limit = DailyLimit, !.max_retries = MaxExtraSends]

RECURSIVE TotalQuestions(_)
\* sum(len(entry['qa_pairs']) for entry in entries)
TotalQuestions(es) ==
    IF es = <<>> THEN 0 ELSE Len(Head(es).qa_pairs) + TotalQuestions(Tail(es))

\* llm.get_remaining_quota()['daily_remaining']
DailyRemaining ==
    get_remaining_quota(llm, config, clock, today).quota.daily_remaining

\* no call of _send_message_with_retry is running
NotSending == [pc |-> "idle", retry_count |-> 0]

\* the interface is constructed and the entries are loaded; the requests
\* of these entries stay below rpm, and the time passes in the sleeps only
DatasetInit ==
    /\ EvalIdle
    /\ AnswerIdle
    /\ BatchIdle
    /\ ProcessIdle
    /\ ThreadIdle
    /\ config = DatasetConfig
    /\ llm = Interface(0)
    /\ clock = 0
    /\ today = 0
    /\ call = [c \in Callers |-> NoSend]
    /\ sent_at = <<>>
    /\ quota = NoQuota
    /\ entries \in Datasets
    /\ next_entry = 0
    /\ all_results = <<>>
    /\ processed_questions = 0
    /\ answers = <<>>
    /\ sending = NotSending
    /\ loop_end = "none"
    /\ dpc = "start"

\* the date changes while the interface is in use
DateChanges ==
    /\ dpc \in {"start", "entries", "answers", "returned", "stored", "raised"}
    /\ today < MaxDate
    /\ today' = today + 1
    /\ UNCHANGED <<llm, entries, next_entry, all_results, processed_questions,
                   answers, sending, loop_end, dpc>>
    /\ UNCHANGED <<evalVars, answerVars, batchVars, processVars, threadVars>>
    /\ UNCHANGED <<config, clock, call, sent_at, quota>>

\* process_dataset up to the loop, when the quota covers the questions
DatasetStart ==
    /\ dpc = "start"
    /\ TotalQuestions(entries) <= DailyRemaining
    /\ llm' = get_remaining_quota(llm, config, clock, today).llm
    /\ dpc' = "entries"
    /\ next_entry' = 1
    /\ all_results' = <<>>
    /\ processed_questions' = 0
    /\ UNCHANGED <<today, entries, answers, sending, loop_end>>
    /\ UNCHANGED <<evalVars, answerVars, batchVars, processVars, threadVars>>
    /\ UNCHANGED <<config, clock, call, sent_at, quota>>

\* process_dataset up to the loop, when it does not: the answer to input()
DatasetAskProceed ==
    /\ dpc = "start"
    /\ TotalQuestions(entries) > DailyRemaining
    /\ llm' = get_remaining_quota(llm, config, clock, today).llm
    /\ \E proceed \in BOOLEAN :
          /\ dpc' = IF proceed THEN "entries" ELSE "declined"
          /\ next_entry' = IF proceed THEN 1 ELSE next_entry
    /\ all_results' = <<>>
    /\ processed_questions' = 0
    /\ UNCHANGED <<today, entries, answers, sending, loop_end>>
    /\ UNCHANGED <<evalVars, answerVars, batchVars, processVars, threadVars>>
    /\ UNCHANGED <<config, clock, call, sent_at, quota>>

\* the loop over entries: the entry needs more than the remaining quota
EntryQuotaBreak ==
    /\ dpc = "entries"
    /\ next_entry <= Len(entries)
    /\ Len(entries[next_entry].qa_pairs) > DailyRemaining
    /\ llm' = get_remaining_quota(llm, config, clock, today).llm
    /\ dpc' = "evaluate"
    /\ loop_end' = "quota"
    /\ UNCHANGED <<today, entries, next_entry, all_results, processed_questions,
                   answers, sending>>
    /\ UNCHANGED <<evalVars, answerVars, batchVars, processVars, threadVars>>
    /\ UNCHANGED <<config, clock, call, sent_at, quota>>

\* the loop over entries, lines 48-63: the quota covers the entry and
\* get_answers is called
GetAnswers ==
    /\ dpc = "entries"
    /\ next_entry <= Len(entries)
    /\ Len(entries[next_entry].qa_pairs) <= DailyRemaining
    /\ llm' = get_remaining_quota(llm, config, clock, today).llm
    /\ dpc' = "answers"
    /\ answers' = <<>>
    /\ sending' = [pc |-> "check", retry_count |-> 0]
    /\ UNCHANGED <<today, entries, next_entry, all_results, processed_questions,
                   loop_end>>
    /\ UNCHANGED <<evalVars, answerVars, batchVars, processVars, threadVars>>
    /\ UNCHANGED <<config, clock, call, sent_at, quota>>

\* _send_message_with_retry, lines 134-156, on the exception e: the sleep
\* before a retry, or the exception that get_answers raises again
Caught(e) ==
    IF IsRateLimitError(e) /\ sending.retry_count < config.max_retries
    THEN /\ sending' = [sending EXCEPT !.pc = "backoff"]
         /\ dpc' = dpc
         /\ answers' = answers
    ELSE /\ sending' = NotSending
         /\ dpc' = "raised"
         /\ answers' = <<>>

\* the state after _check_rate_limits gave r: the daily-limit exception,
\* or the request is added (no wait below rpm)
Limited(r) ==
    /\ r.wait = 0
    /\ IF r.raised
       THEN llm' = r.llm /\ Caught(DailyLimitMessage(config.daily_limit))
       ELSE /\ llm' = AddRequest(r.llm, clock)
            /\ sending' = [sending EXCEPT !.pc = "send"]
            /\ UNCHANGED <<dpc, answers>>

\* get_answers, line 193, and _send_message_with_retry, line 128: the
\* next question is about to be sent and the limits are checked
AnswerCheck ==
    /\ dpc = "answers"
    /\ sending.pc = "check"
    /\ Limited(check_rate_limits(llm, config, clock, today))
    /\ UNCHANGED <<today, entries, next_entry, all_results, processed_questions,
                   loop_end>>
    /\ UNCHANGED <<evalVars, answerVars, batchVars, processVars, threadVars>>
    /\ UNCHANGED <<config, clock, call, sent_at, quota>>

\* _send_message_with_retry, lines 131-132, and get_answers, line 194: the
\* message is answered and the text is appended to answers; get_answers
\* returns after the last question
AnswerSent ==
    /\ dpc = "answers"
    /\ sending.pc = "send"
    /\ \E response_text \in Responses :
          answers' = Append(answers, response_text)
    /\ IF Len(answers) + 1 = Len(entries[next_entry].qa_pairs)
       THEN sending' = NotSending /\ dpc' = "returned"
       ELSE sending' = [pc |-> "check", retry_count |-> 0] /\ dpc' = dpc
    /\ UNCHANGED <<llm, today, entries, next_entry, all_results,
                   processed_questions, loop_end>>
    /\ UNCHANGED <<evalVars, answerVars, batchVars, processVars, threadVars>>
    /\ UNCHANGED <<config, clock, call, sent_at, quota>>

\* _send_message_with_retry, line 131: the API raises
AnswerRaised ==
    /\ dpc = "answers"
    /\ sending.pc = "send"
    /\ \E e \in ApiErrors : Caught(e)
    /\ UNCHANGED <<llm, today, entries, next_entry, all_results,
                   processed_questions, loop_end>>
    /\ UNCHANGED <<evalVars, answerVars, batchVars, processVars, threadVars>>
    /\ UNCHANGED <<config, clock, call, sent_at, quota>>

\* _send_message_with_retry, line 141: delay
RetryDelay == config.retry_delay * IntPow(2, sending.retry_count)

\* _send_message_with_retry, lines 145-151: the sleep is over, the requests
\* are cleared and the call is made again; the time is later by the delay
AnswerCallAgain ==
    /\ dpc = "answers"
    /\ sending.pc = "backoff"
    /\ clock' = clock + RetryDelay
    /\ llm' = [llm EXCEPT !.requests = <<>>]
    /\ sending' = [pc |-> "check", retry_count |-> sending.retry_count + 1]
    /\ UNCHANGED <<today, entries, next_entry, all_results, processed_questions,
                   answers, loop_end, dpc>>
    /\ UNCHANGED <<evalVars, answerVars, batchVars, processVars, threadVars>>
    /\ UNCHANGED <<config, call, sent_at, quota>>

\* process_dataset, lines 65-83: every response is processed and the
\* entry_results are appended to all_results
Stored(entry, llm_responses) ==
    all_results' = Append(all_results,
        [entry_id |-> entry.entry_id,
         questions |-> [i \in 1..Len(entry.qa_pairs) |->
                           entry.qa_pairs[i].question],
         expected_answers |-> [i \in 1..Len(entry.qa_pairs) |->
                                  entry.qa_pairs[i].answer],
         llm_responses |-> llm_responses,
         processed_answers |-> ProcessResponses(llm_responses)])

\* the loop over entries, lines 63-83: get_answers has returned
EntryStored ==
    /\ dpc = "returned"
    /\ Stored(entries[next_entry], answers)
    /\ answers' = <<>>
    /\ dpc' = "stored"
    /\ UNCHANGED <<llm, today, entries, next_entry, processed_questions,
                   sending, loop_end>>
    /\ UNCHANGED <<evalVars, answerVars, batchVars, processVars, threadVars>>
    /\ UNCHANGED <<config, clock, call, sent_at, quota>>

\* the loop over entries, line 85, and on to the next entry
EntryCounted ==
    /\ dpc = "stored"
    /\ processed_questions' = processed_questions + Len(entries[next_entry].qa_pairs)
    /\ next_entry' = next_entry + 1
    /\ dpc' = "entries"
    /\ UNCHANGED <<llm, today, entries, all_results, answers, sending, loop_end>>
    /\ UNCHANGED <<evalVars, answerVars, batchVars, processVars, threadVars>>
    /\ UNCHANGED <<config, clock, call, sent_at, quota>>

\* the loop over entries, lines 87-88: get_answers raised, the error is
\* printed and the loop goes on
EntryFailed ==
    /\ dpc = "raised"
    /\ next_entry' = next_entry + 1
    /\ dpc' = "entries"
    /\ UNCHANGED <<llm, today, entries, all_results, processed_questions,
                   answers, sending, loop_end>>
    /\ UNCHANGED <<evalVars, answerVars, batchVars, processVars, threadVars>>
    /\ UNCHANGED <<config, clock, call, sent_at, quota>>

\* the loop over entries is over
EntriesDone ==
    /\ dpc = "entries"
    /\ next_entry > Len(entries)
    /\ dpc' = "evaluate"
    /\ loop_end' = "done"
    /\ UNCHANGED <<llm, today, entries, next_entry, all_results,
                   processed_questions, answers, sending>>
    /\ UNCHANGED <<evalVars, answerVars, batchVars, processVars, threadVars>>
    /\ UNCHANGED <<config, clock, call, sent_at, quota>>

\* _check_rate_limits, lines 102-121, statement by statement: the
\* interface before each statement that is reached when nothing is raised
\* (the date is read at line 99, a request is added when there is no wait)
CheckMidway(l, cfg, current_time, current_date) ==
    LET reset == ResetDaily(l, current_date)
        r == CheckLimits(reset, cfg, current_time)
    IN  {l, reset}
        \cup (IF current_date # l.last_reset_date
              THEN {[l EXCEPT !.daily_requests = 0]} ELSE {})
        \cup (IF r.raised THEN {} ELSE {r.llm})
        \cup (IF ~r.raised /\ r.wait = 0
              THEN {[r.llm EXCEPT !.requests = Append(r.llm.requests, current_time)]}
              ELSE {})

\* the interface at the statements of the step that comes next in the loop:
\* get_remaining_quota of line 49 before and after its line 210, or
\* _check_rate_limits between two of its statements
Midway ==
    IF dpc = "entries" /\ next_entry <= Len(entries)
    THEN {llm, get_remaining_quota(llm, config, clock, today).llm}
    ELSE IF dpc = "answers" /\ sending.pc = "check"
    THEN CheckMidway(llm, config, clock, today)
    ELSE {llm}

\* the time around and in the asyncio.sleep of line 145: before the sleep
\* (lines 135-142), at any second of it, and after it (before line 148)
Asleep ==
    IF dpc = "answers" /\ sending.pc = "backoff"
    THEN {clock + d : d \in 0..RetryDelay}
    ELSE {clock}

\* process_dataset, lines 90-91: a KeyboardInterrupt is raised in the code
\* of the loop, at any statement from line 45 to line 88 and of the calls
\* made there, and the results so far are evaluated.  It is also raised
\* while the CancelledError of a task cancelled in its sleep passes the
\* except clauses of lines 134 to 196, and is caught in its place.
Interrupted ==
    /\ dpc \in {"entries", "answers", "returned", "stored", "raised"}
    /\ llm' \in Midway
    /\ clock' \in Asleep
    /\ dpc' = "evaluate"
    /\ loop_end' = "interrupt"
    /\ answers' = <<>>
    /\ sending' = NotSending
    /\ UNCHANGED <<today, entries, next_entry, all_results,
                   processed_questions>>
    /\ UNCHANGED <<evalVars, answerVars, batchVars, processVars, threadVars>>
    /\ UNCHANGED <<config, call, sent_at, quota>>

\* asyncio.run, line 154, ends with an exception and nothing is saved: the
\* run is interrupted while process_dataset waits in asyncio.sleep, at any
\* time of the sleep, and the task is cancelled, or a KeyboardInterrupt is
\* raised outside the try statement of the loop, before save_results is
\* called
Cancelled ==
    /\ \/ dpc = "answers" /\ sending.pc = "backoff"
       \/ dpc \in {"start", "evaluate"}
       \/ dpc = "batch" /\ bpc \in {"start", "loop", "done"}
    /\ clock' \in Asleep
    /\ dpc' = "cancelled"
    /\ bpc' = "idle"
    /\ answers' = <<>>
    /\ sending' = NotSending
    /\ UNCHANGED <<llm, today, entries, next_entry, all_results,
                   processed_questions, loop_end>>
    /\ UNCHANGED <<pairs, idx, acc, compared, metrics>>
    /\ UNCHANGED <<evalVars, answerVars, processVars, threadVars>>
    /\ UNCHANGED <<config, call, sent_at, quota>>

\* process_dataset: evaluation_pairs is built and given to evaluate_batch
EvaluateResults ==
    /\ dpc = "evaluate"
    /\ pairs' = EvaluationPairs(all_results)
    /\ bpc' = "start"
    /\ dpc' = "batch"
    /\ UNCHANGED <<idx, acc, compared, metrics>>
    /\ UNCHANGED <<entries, next_entry, all_results, processed_questions,
                   answers, sending, loop_end>>
    /\ UNCHANGED <<evalVars, answerVars, processVars, threadVars, llmVars>>

\* process_dataset: evaluate_batch has returned, the results are saved
SaveResults ==
    /\ dpc = "batch"
    /\ bpc = "done"
    /\ dpc' = "saved"
    /\ UNCHANGED <<entries, next_entry, all_results, processed_questions,
                   answers, sending, loop_end>>
    /\ UNCHANGED <<evalVars, answerVars, batchVars, processVars, threadVars, llmVars>>

DatasetNext ==
    \/ DateChanges
    \/ DatasetStart \/ DatasetAskProceed
    \/ EntryQuotaBreak \/ GetAnswers
    \/ AnswerCheck \/ AnswerSent \/ AnswerRaised \/ AnswerCallAgain
    \/ EntryStored \/ EntryCounted \/ EntryFailed \/ EntriesDone
    \/ Interrupted \/ Cancelled
    \/ EvaluateResults \/ BatchEnter \/ BatchIterate \/ BatchFinish
    \/ SaveResults

SpecDataset == DatasetInit /\ [][DatasetNext]_vars

(***************************************************************************)
(* Properties of evaluate                                                  *)
(***************************************************************************)
Done == pc = "done"
InputWellFormed == WellFormed(input.tree) /\ input.tail = <<>>
NamesOf(t) == {u.op : u \in {w \in SubTrees(t) : ~IsLeaf(w)}}
HasUnknown(t) == \E f \in NamesOf(t) : f \notin operations
HasWrongArity(t) == \E u \in SubTrees(t) : ~IsLeaf(u) /\ Len(u.args) # 2
\* no call of exp, the one operation that can raise or return no float
Quiet(t) == EXP \notin NamesOf(t)
Malformed(r) == r.kind = "error" /\ r.err \in {InvalidFormat, ErrorEvaluating}
\* the text a well-formed quiet tree is reduced to
Reduced(t) == IF IsLeaf(t) THEN t.text ELSE ResultText(t.op, PostOrder(t).v)
HasInfText(e) == \E i \in 1..(Len(e) - 2) : SubSeq(e, i, i + 2) = <<"i", "n", "f">>

\* C1: evaluate of a well-formed expression ends with a number, never an error.
C1_EvaluateTotal ==
    (Done /\ InputWellFormed) => result.kind = "value"

\* C2: on a well-formed expression the rewriting returns the value of the
\* post-order evaluation of the parse tree (and fails only where an operation
\* of the post-order evaluation fails).
C2_RewritingIsPostOrder ==
    (Done /\ InputWellFormed) =>
        LET p == PostOrder(input.tree)
        IN  IF p.raise THEN result.kind = "error" ELSE result = Returned(p.v)

\* C3: an unknown name fails with the unknown-operation error naming it; an
\* argument count other than two, and a fully reduced text that is no numeral,
\* fail with one of the malformed-expression errors; none returns a number.
C3_DescriptiveErrors ==
    Done =>
        /\ (input.tail = <<>> /\ HasUnknown(input.tree)
                /\ ~HasWrongArity(input.tree) /\ Quiet(input.tree))
            => /\ result.kind = "error"
               /\ result.err = UnknownOperation
               /\ result.name \in NamesOf(input.tree) \ operations
        /\ (input.tail = <<>> /\ HasWrongArity(input.tree)
                /\ ~HasUnknown(input.tree) /\ Quiet(input.tree))
            => Malformed(result)
        /\ (WellFormed(input.tree) /\ Quiet(input.tree)
                /\ ~Float(Reduced(input.tree) \o input.tail).ok)
            => Malformed(result)

\* C3 witness: an unknown name around a valid call has been reported by name
C3_Witness ==
    /\ Done
    /\ input.tree.op = FOO
    /\ \E i \in 1..Len(input.tree.args) : ~IsLeaf(input.tree.args[i])
    /\ result = Raised(UnknownOperation, FOO)

\* C4: a division by zero gives +inf for every dividend and does not raise;
\* the text "inf" is substituted, and a call on an infinite argument is
\* evaluated without error.
C4_DivideByZero ==
    /\ (last.func_name = DIVIDE /\ Len(last.args) = 2 /\ IsZero(last.args[2]))
        => /\ ~last.raised
           /\ last.result = PosInf
           /\ pc = "loop" => HasInfText(expression)
           /\ (Done /\ InputWellFormed) => result = Returned(PosInf)
    /\ (Len(last.args) = 2 /\ PosInf \in {last.args[1], last.args[2]})
        => /\ ~last.raised
           /\ Done => result.kind = "value"

\* C4 witness: a call around a division of a negative number by zero returned
C4_Witness ==
    /\ Done
    /\ InputWellFormed
    /\ \E i \in 1..Len(input.tree.args) :
          /\ input.tree.args[i].op = DIVIDE
          /\ Less(Float(input.tree.args[i].args[1].text).v, Zero)
          /\ IsZero(Float(input.tree.args[i].args[2].text).v)
    /\ PosInf \in {last.args[1], last.args[2]}
    /\ result.kind = "value"

\* the last pass applied exp to a negative base and a fractional exponent
NegativeBaseFractionalExponent ==
    /\ last.func_name = EXP
    /\ Len(last.args) = 2
    /\ IsFin(last.args[1]) /\ Less(last.args[1], Zero)
    /\ IsFin(last.args[2]) /\ ~IsIntegral(last.args[2])

\* C17: exp of a negative base and a fractional exponent gives NaN, without
\* raising and without complex text, and evaluate then returns a number
C17_ExpNaN ==
    NegativeBaseFractionalExponent =>
        /\ ~last.raised
        /\ last.result = NaN
        /\ Done => result.kind = "value"

(***************************************************************************)
(* Properties of format_number and parse_answer                            *)
(***************************************************************************)
Formatted == apc \in {"parse", "done"}
RoundTripped == apc = "done"
ParsedRaw == apc = "rawdone"
FormatValue == FMul(number, instructions.multiplier)

\* s starts with p / ends with p
StartsWith(s, p) == Len(p) <= Len(s) /\ Slice(s, 1, Len(p)) = p
EndsWith(s, p) == Len(p) <= Len(s) /\ Slice(s, Len(s) - Len(p) + 1, Len(s)) = p

\* the answer is prefix + numeral + suffix and parses back to the
\* instructions and the rounded value
RoundTripHolds ==
    /\ parsed.ok
    /\ parsed.prefix = instructions.prefix
    /\ parsed.suffix = instructions.suffix
    /\ parsed.decimal_places = instructions.rounding
    /\ parsed.number = round(FormatValue, instructions.rounding)

\* an affix the boundary rule gives back: no numeral character in it and no
\* white space on its outer side
PlainPrefix(p) ==
    /\ \A i \in 1..Len(p) : p[i] \notin Digits \cup {".", "-"}
    /\ p # <<>> => p[1] # " "
PlainSuffix(x) ==
    /\ \A i \in 1..Len(x) : x[i] \notin Digits \cup {"."}
    /\ x # <<>> => x[Len(x)] # " "

\* C5 as stated: parse_answer(format_number(n, I)) succeeds and gives back
\* I.prefix, I.suffix, I.rounding and n * I.multiplier rounded, for any n and I.
C5_RoundTrip == RoundTripped => RoundTripHolds

\* C5 amended: the round trip holds when n * I.multiplier is finite, I.prefix
\* has no digit, '.' or '-' and no leading white space, and I.suffix has no
\* digit or '.' and no trailing white space.
C5_RoundTripPlain ==
    (RoundTripped /\ IsFin(FormatValue)
        /\ PlainPrefix(instructions.prefix) /\ PlainSuffix(instructions.suffix))
    => RoundTripHolds

\* C5 witness: a negative percentage with prefix "$" came back
C5_Witness ==
    /\ RoundTripped
    /\ Less(FormatValue, Zero)
    /\ instructions.prefix = <<"$">>
    /\ instructions.suffix = <<"%">>
    /\ instructions.rounding = 2
    /\ instructions.multiplier # One
    /\ RoundTripHolds

\* the numeral m is value written to r places: a minus sign first for a
\* negative value, then digits only, with a point before the last r digits
\* when r > 0 and none when r = 0, within half a unit of the last place
IsRoundedNumeral(m, value, r) ==
    LET neg == m # <<>> /\ m[1] = "-"
        body == IF neg THEN Tail(m) ELSE m
        dots == {i \in 1..Len(body) : body[i] = "."}
        err == AbsV(FSub(DecimalValue(body), AbsV(value)))
    IN  /\ Less(value, Zero) => neg
        /\ IsDecimal(body)
        /\ IF r = 0 THEN dots = {}
           ELSE dots = {Len(body) - r} /\ Len(body) >= r + 2
        /\ ~Less(Fin(1, 2 * IntPow(10, r)), err)

\* the part of the answer between the prefix and the suffix given
Numeral ==
    Slice(answer, Len(instructions.prefix) + 1, Len(answer) - Len(instructions.suffix))

FormatShape ==
    /\ StartsWith(answer, instructions.prefix)
    /\ EndsWith(answer, instructions.suffix)
    /\ Len(answer) >= Len(instructions.prefix) + Len(instructions.suffix)

\* C6 as stated: format_number returns prefix + numeral + suffix with the
\* value rounded to `rounding` places and exactly `rounding` digits after
\* the point, the minus sign of a negative value right before the digits.
C6_FormatNumber ==
    Formatted =>
        /\ FormatShape
        /\ IsRoundedNumeral(Numeral, FormatValue, instructions.rounding)

\* C6 amended: this holds when number * multiplier is finite; an infinite or
\* NaN value is written inf, -inf or nan between the prefix and the suffix.
C6_FormatFiniteNumber ==
    Formatted =>
        /\ FormatShape
        /\ IF IsFin(FormatValue)
           THEN IsRoundedNumeral(Numeral, FormatValue, instructions.rounding)
           ELSE Numeral \in {<<"i", "n", "f">>, <<"-", "i", "n", "f">>, <<"n", "a", "n">>}

\* C6 witness: prefix "$", number -5, rounding 2 gave "$-5.00"
C6_Witness ==
    /\ Formatted
    /\ number = Fin(0 - 5, 1)
    /\ instructions = [prefix |-> <<"$">>, suffix |-> <<>>, rounding |-> 2,
                       multiplier |-> One]
    /\ answer = <<"$", "-", "5", ".", "0", "0">>

\* the longest leading run of a outside stop, and the longest trailing one
LeadingRun(a, stop) ==
    LET k == CHOOSE k \in 0..Len(a) :
                /\ \A i \in 1..k : a[i] \notin stop
                /\ k < Len(a) => a[k + 1] \in stop
    IN  Slice(a, 1, k)
TrailingRun(a, stop) ==
    LET k == CHOOSE k \in 0..Len(a) :
                /\ \A i \in (Len(a) - k + 1)..Len(a) : a[i] \notin stop
                /\ k < Len(a) => a[Len(a) - k] \in stop
    IN  Slice(a, Len(a) - k + 1, Len(a))

\* parse_answer split a by the boundary rule
SplitByBoundaryRule(a) ==
    LET p == LeadingRun(a, Digits \cup {".", "-"})
        x == TrailingRun(a, Digits \cup {"."})
        rest == Slice(a, Len(p) + 1, Len(a) - Len(x))
    IN  /\ parsed.ok <=> Float(rest).ok
        /\ parsed.ok =>
            /\ parsed.prefix = p
            /\ parsed.suffix = x
            /\ p \o rest \o x = parsed.raw_string
        /\ (\A i \in 1..Len(a) : a[i] \notin Digits \cup {".", "-"}) => ~parsed.ok

\* t is s without the white space around it
IsTrimOf(t, s) ==
    /\ \E i \in 1..(Len(s) + 1) : \E j \in 0..Len(s) :
          /\ t = Slice(s, i, j)
          /\ \A m \in 1..Len(s) : (m < i \/ m > j) => s[m] = " "
    /\ t # <<>> => (t[1] # " " /\ t[Len(t)] # " ")

\* C7 as stated: parse_answer splits every input string by the boundary rule.
C7_BoundaryRule == ParsedRaw => SplitByBoundaryRule(answer)

\* C7 amended: parse_answer splits the input string without its surrounding
\* white space by the boundary rule.
C7_BoundaryRuleTrimmed ==
    ParsedRaw =>
        \A t \in {Slice(answer, i, j) : i \in 1..(Len(answer) + 1), j \in 0..Len(answer)} :
            IsTrimOf(t, answer) => SplitByBoundaryRule(t)

\* C7 witness: " $5" was parsed with prefix "$"
C7_Witness ==
    /\ ParsedRaw
    /\ answer = <<" ", "$", "5">>
    /\ parsed.ok
    /\ parsed.prefix = <<"$">>
    /\ parsed.number = Fin(5, 1)

(***************************************************************************)
(* Properties of compare_answers and evaluate_batch                        *)
(***************************************************************************)
BatchDone == bpc = "done" /\ Len(pairs) > 0

\* the pair compares: both strings parse
Compares(pair) == parse_answer(pair[1]).ok /\ parse_answer(pair[2]).ok

\* the pair matches on a field of the parsed answers
MatchesOn(pair, field) ==
    LET g == parse_answer(pair[1])
        e == parse_answer(pair[2])
    IN  CASE field = "prefix" -> g.prefix = e.prefix
          [] field = "suffix" -> g.suffix = e.suffix
          [] field = "decimal_places" -> g.decimal_places = e.decimal_places

\* (pairs that compare and match on the field) / (pairs submitted)
RateOf(field) ==
    Fin(Cardinality({i \in 1..Len(pairs) : Compares(pairs[i]) /\ MatchesOn(pairs[i], field)}),
        Len(pairs))

SmapeOf(pair) ==
    LET g == parse_answer(pair[1]).number
        e == parse_answer(pair[2]).number
    IN  IF IsZero(g) /\ IsZero(e) THEN Zero
        ELSE FDiv(FMul(Fin(200, 1), AbsV(FSub(g, e))), FAdd(AbsV(g), AbsV(e)))

RECURSIVE SmapeSum(_)
\* sum of SMAPE over the pairs at positions 1..k that compare
SmapeSum(k) ==
    IF k = 0 THEN Zero
    ELSE IF Compares(pairs[k]) THEN FAdd(SmapeSum(k - 1), SmapeOf(pairs[k]))
    ELSE SmapeSum(k - 1)

Successes == {i \in 1..Len(pairs) : Compares(pairs[i])}

InUnitInterval(v) == IsFin(v) /\ ~Less(v, Zero) /\ ~Less(One, v)

\* C8: the three rates of evaluate_batch are (pairs that compared and
\* matched on the field) / (pairs submitted); mean_smape is the sum of SMAPE
\* over the compared pairs divided by their number; every rate is in [0, 1]
C8_BatchRates ==
    BatchDone =>
        /\ metrics.prefix_match_rate = RateOf("prefix")
        /\ metrics.suffix_match_rate = RateOf("suffix")
        /\ metrics.decimal_places_match_rate = RateOf("decimal_places")
        /\ Successes # {} =>
               /\ "mean_smape" \in metrics.keys
               /\ metrics.mean_smape
                      = FDiv(SmapeSum(Len(pairs)), Fin(Cardinality(Successes), 1))
        /\ InUnitInterval(metrics.prefix_match_rate)
        /\ InUnitInterval(metrics.suffix_match_rate)
        /\ InUnitInterval(metrics.decimal_places_match_rate)

\* a batch of several pairs is done, of which one failed to parse and
\* another compared without matching on every field
C8_Witness ==
    /\ BatchDone
    /\ Len(pairs) >= 3
    /\ Successes # {}
    /\ Cardinality(Successes) < Len(pairs)
    /\ metrics.prefix_match_rate # metrics.decimal_places_match_rate
    /\ IsFin(metrics.mean_smape) /\ ~IsZero(metrics.mean_smape)

OppositeSigns(g, e) == Sign(g) * Sign(e) < 0

\* C10: the SMAPE of compare_answers is 0 when both parsed numbers are zero
\* and 200 * |g - e| / (|g| + |e|) otherwise; the division is defined, the
\* result is in [0, 200], and it is 200 when exactly one number is zero or
\* the two have opposite signs
C10_Smape ==
    ((bpc = "loop" /\ idx > 1) \/ bpc = "crashed") =>
        LET pair == pairs[IF bpc = "crashed" THEN idx ELSE idx - 1]
            g == parse_answer(pair[1]).number
            e == parse_answer(pair[2]).number
            smape == acc.results.smape
        IN  /\ bpc # "crashed"
            /\ acc.results.ok =>
                 /\ smape = SmapeOf(pair)
                 /\ IsFin(smape)
                 /\ ~Less(smape, Zero) /\ ~Less(Fin(200, 1), smape)
                 /\ ((IsZero(g) # IsZero(e)) \/ OppositeSigns(g, e))
                        => smape = Fin(200, 1)

(***************************************************************************)
(* Properties of the batch drivers                                         *)
(***************************************************************************)
\* the positions of pairs the for loop of evaluate_batch has passed
Visited == IF bpc = "done" THEN 1..Len(pairs) ELSE 1..(idx - 1)

\* evaluate_batch: every pair passed that compares was compared and counted,
\* whatever failed before it; the loop ends only after the last pair
BatchNeverAborts ==
    /\ bpc # "crashed"
    /\ bpc \in {"loop", "done"} =>
          /\ compared = {i \in Visited : Compares(pairs[i])}
          /\ Len(pairs) > 0 => acc.valid_comparisons = Cardinality(compared)
    /\ bpc = "done" /\ Len(pairs) > 0 => idx = Len(pairs) + 1

\* the responses of the model that process_answer rejects: the text that is
\* no JSON and the formula whose evaluation raises
FailingResponses == {NotJson, Raising}

\* the answers that process_answer returns for the other responses:
\* 1 / 2 with the prefix "$" and two decimals, (2 - 0.5) * 100 with the
\* suffix "%" and no decimals
AnswerOf(reply) ==
    IF reply = Dollars THEN <<"$", "0", ".", "5", "0">>
    ELSE <<"1", "5", "0", "%">>

\* process_dataset: every stored entry holds the responses to all of its
\* questions and one processed answer for each response, None exactly for
\* the responses that process_answer rejects and the answer of the response
\* for every other one, whatever was rejected before it
ResponsesAllProcessed ==
    \A k \in 1..Len(all_results) :
        LET r == all_results[k]
        IN  /\ Len(r.llm_responses) = Len(r.questions)
            /\ Len(r.processed_answers) = Len(r.llm_responses)
            /\ \A i \in 1..Len(r.llm_responses) :
                  IF r.llm_responses[i] \in FailingResponses
                  THEN r.processed_answers[i] = None
                  ELSE r.processed_answers[i] = Some(AnswerOf(r.llm_responses[i]))

\* process_dataset: the loop over entries ends after the last entry, at an
\* entry that needs more than the remaining quota, or at a KeyboardInterrupt;
\* no failure of a response or of an entry ends it
EntriesAllVisited ==
    dpc \in {"evaluate", "batch", "saved"} =>
        \/ loop_end = "done" /\ next_entry > Len(entries)
        \/ loop_end = "quota" /\ Len(entries[next_entry].qa_pairs) > DailyRemaining
        \/ loop_end = "interrupt"

\* C9: a failure on one item never aborts a batch: evaluate_batch skips a
\* pair whose comparison fails and still compares and counts every other
\* pair; process_dataset records None for a response whose process_answer
\* fails and still processes the other responses and the later entries
C9_NoAbort ==
    /\ BatchNeverAborts
    /\ ResponsesAllProcessed
    /\ EntriesAllVisited

HasSome(r) == \E i \in 1..Len(r.processed_answers) : ~r.processed_answers[i].none

\* the loop ran to its end and the run is saved; the first response of the
\* first entry failed, the second one and a later entry were processed; a
\* pair failed to compare and a later pair was compared
C9_Witness ==
    /\ dpc = "saved"
    /\ loop_end = "done"
    /\ Len(all_results) = 2
    /\ Len(all_results[1].processed_answers) = 2
    /\ all_results[1].processed_answers[1].none
    /\ ~all_results[1].processed_answers[2].none
    /\ HasSome(all_results[2])
    /\ \E i, j \in 1..Len(pairs) : i < j /\ ~Compares(pairs[i]) /\ j \in compared

(***************************************************************************)
(* Properties of the errors of compare_answers                             *)
(***************************************************************************)
GeneratedSide ==
    <<"g", "e", "n", "e", "r", "a", "t", "e", "d">>
ExpectedSide ==
    <<"e", "x", "p", "e", "c", "t", "e", "d">>

\* the last pass of the loop of evaluate_batch compared a pair and failed
ComparisonFailed == bpc = "loop" /\ idx > 1 /\ ~acc.results.ok

\* C11: when a side of compare_answers cannot be parsed, the error message
\* identifies the offending string and names the side that failed
C11_ErrorNamesSide ==
    ComparisonFailed =>
        LET pair == pairs[idx - 1]
            generatedFails == ~parse_answer(pair[1]).ok
            offending == IF generatedFails THEN pair[1] ELSE pair[2]
        IN  /\ Occurs(Strip(offending), acc.results.message)
            /\ Occurs(IF generatedFails THEN GeneratedSide ELSE ExpectedSide,
                      acc.results.message)

\* the last pass of the loop of evaluate_batch compared a pair
ComparisonMade == bpc = "loop" /\ idx > 1 /\ acc.results.ok

\* the numeral substring of a display string: what lies between the prefix
\* and the suffix of the string without its surrounding white space
NumeralOf(a) ==
    LET t == Strip(a)
        p == LeadingRun(t, Digits \cup {".", "-"})
        x == TrailingRun(t, Digits \cup {"."})
    IN  Slice(t, Len(p) + 1, Len(t) - Len(x))
PrefixOf(a) == LeadingRun(Strip(a), Digits \cup {".", "-"})
SuffixOf(a) == TrailingRun(Strip(a), Digits \cup {"."})

\* the number of digits after the decimal point of a numeral, 0 without one
DigitsAfterPoint(numeral) ==
    LET dots == {i \in 1..Len(numeral) : numeral[i] = "."}
    IN  IF dots = {} THEN 0
        ELSE Cardinality({i \in 1..Len(numeral) :
                            /\ \A j \in dots : i > j
                            /\ numeral[i] \in Digits})

\* C16: decimal_places is the number of digits after the decimal point of
\* the numeral substring (0 without a point), decimal_places_match is true
\* exactly when the two counts are equal, and prefix_match and suffix_match
\* are exact, case-sensitive equality of the prefix and suffix strings
C16_DecimalPlaces ==
    ComparisonMade =>
        LET pair == pairs[idx - 1]
        IN  /\ acc.results.decimal_places_match
                 <=> (DigitsAfterPoint(NumeralOf(pair[1]))
                        = DigitsAfterPoint(NumeralOf(pair[2])))
            /\ acc.results.prefix_match <=> (PrefixOf(pair[1]) = PrefixOf(pair[2]))
            /\ acc.results.suffix_match <=> (SuffixOf(pair[1]) = SuffixOf(pair[2]))

(***************************************************************************)
(* Properties of the result of evaluate_batch                              *)
(***************************************************************************)
\* C12: evaluate_batch returns {} for no pair; for some pairs it returns the
\* three rates, and mean_smape exactly when a pair compared; when no pair
\* compared the three rates are 0; it does not raise
C12_BatchKeys ==
    /\ bpc # "crashed"
    /\ bpc = "done" =>
          /\ Len(pairs) = 0 => metrics.keys = {}
          /\ Len(pairs) > 0 =>
                /\ RateKeys \subseteq metrics.keys
                /\ metrics.keys \subseteq RateKeys \cup {"mean_smape"}
                /\ "mean_smape" \in metrics.keys <=> Successes # {}
                /\ Successes = {} =>
                      /\ metrics.prefix_match_rate = Zero
                      /\ metrics.suffix_match_rate = Zero
                      /\ metrics.decimal_places_match_rate = Zero

\* a batch of several pairs is done, none of which compared
C12_Witness ==
    /\ bpc = "done"
    /\ Len(pairs) >= 2
    /\ Successes = {}
    /\ metrics.keys = RateKeys
    /\ metrics.prefix_match_rate = Zero

(***************************************************************************)
(* Properties of process_answer                                            *)
(***************************************************************************)
ProcessDone == ppc = "done"
\* the text of the response without its fence markers and white space
Unfenced(text) ==
    SelectSeq(text, LAMBDA t : t \notin {"fence_json", "fence", " ", "\n"})
ValidText == response.valid_json /\ Unfenced(response.text) = <<"{}">>
RaisedOnly(msg, detail) ==
    /\ ~outcome.ok
    /\ outcome.err = msg
    /\ outcome.detail = detail
    /\ ~outcome.evaluated
    /\ ~outcome.formatted

\* C13: process_answer on a response whose JSON lacks the formula key or the
\* formatting_instructions key raises the missing-field error without
\* evaluating a formula or formatting a number; on a text that is no valid
\* JSON once fences and white space are removed it raises the
\* invalid-JSON error; and a complete response is answered whatever the
\* calls before it raised.
C13_MissingFields ==
    ProcessDone =>
        /\ ~ValidText => RaisedOnly(InvalidJson, "")
        /\ (ValidText /\ (~response.has_formula \/ ~response.has_format))
              => RaisedOnly(ErrorProcessing, MissingFields)
        /\ (ValidText /\ response.has_formula /\ response.has_format
              /\ response.formula = Percent.formula
              /\ response.format_dict = Percent.format_dict)
              => (outcome.ok /\ outcome.text = <<"1", "5", "0", "%">>)

C13_Witness ==
    /\ ProcessDone
    /\ ValidText
    /\ ~response.has_formula
    /\ response.has_format
    /\ response.format_dict.keys = FieldNames
    /\ RaisedOnly(ErrorProcessing, MissingFields)
    /\ failed = 2

\* the fields supplied in a dict, and the documented default for the others
WithDefaults(d) ==
    [prefix |-> IF "prefix" \in d.keys THEN d.prefix ELSE <<>>,
     suffix |-> IF "suffix" \in d.keys THEN d.suffix ELSE <<>>,
     rounding |-> IF "rounding" \in d.keys THEN d.rounding ELSE 2,
     multiplier |-> IF "multiplier" \in d.keys THEN d.multiplier ELSE Fin(1, 1)]
\* the response holds the formula add(1, 2.5) and a dict of instructions
Formattable ==
    /\ ValidText
    /\ response.has_formula
    /\ response.formula = ADD \o <<"(", "1", ",", " ", "2", ".", "5", ")">>
    /\ response.has_format

\* C14: a dict of formatting instructions that omits any subset of its four
\* fields, all four included, is formatted with the defaults (prefix "",
\* suffix "", rounding 2, multiplier 1.0) for the omitted fields and the
\* supplied values for the others, both by parse_instructions called
\* directly and through process_answer.
C14_Defaults ==
    /\ ppc = "parsed" => formatting = WithDefaults(response.format_dict)
    /\ (ProcessDone /\ Formattable) =>
          /\ outcome.ok
          /\ outcome.text =
               format_number(Fin(7, 2), WithDefaults(response.format_dict))

(***************************************************************************)
(* Properties of the core operations called from several threads           *)
(***************************************************************************)
\* the result of the call when it runs alone
Alone(op, arg) ==
    CASE op = "evaluate" -> evaluate(arg)
      [] op = "evaluate_batch" -> evaluate_batch(arg)
      [] op = "format_number" -> format_number(arg[1], arg[2])
      [] op = "parse_instructions" -> parse_instructions(arg)
      [] op = "parse_answer" -> parse_answer(arg)
      [] op = "compare_answers" -> compare_answers(arg[1], arg[2])

\* C15: the core operations leave the objects they are called on and their
\* arguments unchanged, and under every interleaving of calls from several
\* threads each call returns what it returns when run alone.
C15_Pure ==
    /\ instance = Constructed
    /\ \A t \in DOMAIN calls :
          /\ calls[t].arg = calls[t].given
          /\ calls[t].pc = "done"
                => calls[t].result = Alone(calls[t].op, calls[t].arg)

\* two calls of evaluate on different expressions have been interleaved,
\* one returned and the other raised
C15_Witness ==
    /\ DOMAIN calls = Threads
    /\ calls[1].op = "evaluate" /\ calls[2].op = "evaluate"
    /\ calls[1].arg # calls[2].arg
    /\ calls[1].pc = "done" /\ calls[2].pc = "done"
    /\ calls[1].result.ok /\ ~calls[2].result.ok
    /\ locals[1].expression # <<>> /\ locals[2].expression # <<>>

(***************************************************************************)
(* Properties of LLMInterface                                              *)
(***************************************************************************)
\* the recorded timestamps younger than 60 seconds
YoungRequests == {i \in 1..Len(llm.requests) : clock - llm.requests[i] < Window}

\* C18: no more than rpm messages are sent within any 60 seconds, the list
\* of timestamps never holds more than rpm entries younger than 60 seconds,
\* and get_remaining_quota never reports a negative minute_remaining
C18_RateLimit ==
    /\ Len(sent_at) <= config.rpm
    /\ Cardinality(YoungRequests) <= config.rpm
    /\ quota.minute_remaining >= 0

\* C19: a call makes at most max_retries + 1 attempts, the k-th retry (from
\* 0) comes after a wait of retry_delay * 2^k, the call that fails after the
\* last retry raises the maximum-retries error, and the daily-limit error is
\* raised again at once, without a retry
C19_RetryProtocol ==
    \A c \in Callers :
        /\ call[c].attempts <= config.max_retries + 1
        /\ Len(call[c].waits)
              = call[c].retry_count + (IF call[c].pc = "backoff" THEN 1 ELSE 0)
        /\ \A k \in 1..Len(call[c].waits) :
              call[c].waits[k] = config.retry_delay * IntPow(2, k - 1)
        /\ (call[c].pc = "raised"
               /\ call[c].error = MaxRetriesMessage(config.max_retries))
              => call[c].attempts = config.max_retries + 1
        /\ call[c].limit_reached =>
              /\ call[c].pc \in {"except", "raised"}
              /\ call[c].error = DailyLimitMessage(config.daily_limit)

\* the daily limit of the date is reached
LimitReached ==
    llm.daily_requests >= config.daily_limit /\ today = llm.last_reset_date

\* C20, as a property of every step
DailyLimitStep ==
    /\ llm'.daily_requests <= config.daily_limit
    /\ sent_at' # sent_at => (llm' = llm /\ \E c \in Callers : call[c].pc = "send")
    /\ llm'.daily_requests < llm.daily_requests =>
          llm'.last_reset_date # llm.last_reset_date
    /\ \A c \in Callers :
          /\ (call[c].pc = "check" /\ call'[c].pc = "send") =>
                llm'.daily_requests =
                    (IF today # llm.last_reset_date THEN 0 ELSE llm.daily_requests) + 1
          /\ (call[c].pc = "sleeping" /\ call'[c].pc = "send") =>
                llm'.daily_requests = llm.daily_requests + 1
          /\ (LimitReached /\ call[c].pc = "check") =>
                /\ llm' = llm
                /\ sent_at' = sent_at
                /\ call'[c].pc = "except"
                /\ call'[c].error = DailyLimitMessage(config.daily_limit)
          /\ (call[c].limit_reached /\ call[c].pc = "except") =>
                /\ llm' = llm
                /\ sent_at' = sent_at
                /\ call'[c].pc = "raised"
                /\ call'[c].error = call[c].error

\* C20: daily_requests never exceeds daily_limit within a date; an attempt
\* increments it by exactly one before the message is sent; once the limit is
\* reached an attempt fails with the daily-limit error without sending and
\* without changing daily_requests or the timestamps; the counter goes back
\* to 0 only when the date changes
C20_DailyLimit == [][DailyLimitStep]_vars

\* ---------------------------------------------------------------------
\* Properties of process_dataset: the pairs handed to evaluate_batch

\* the entry of the dataset a stored result belongs to
EntryOf(stored) ==
    CHOOSE e \in {entries[k] : k \in 1..Len(entries)} : e.entry_id = stored.entry_id

\* the four lists of a stored result have the length of the entry's qa_pairs
\* and follow their order
ListsAligned(stored) ==
    /\ \E k \in 1..Len(entries) : entries[k].entry_id = stored.entry_id
    /\ LET qa == EntryOf(stored).qa_pairs
       IN  /\ Len(stored.questions) = Len(qa)
           /\ Len(stored.expected_answers) = Len(qa)
           /\ Len(stored.llm_responses) = Len(qa)
           /\ Len(stored.processed_answers) = Len(qa)
           /\ \A i \in 1..Len(qa) :
                 /\ stored.questions[i] = qa[i].question
                 /\ stored.expected_answers[i] = qa[i].answer
                 /\ i <= Len(stored.llm_responses) /\ i <= Len(stored.processed_answers)
                    => stored.processed_answers[i]
                          = Processed(process_answer(stored.llm_responses[i]))

\* the questions of the stored results that have a processed answer
Slots ==
    UNION {{<<r, i>> : i \in {j \in 1..Len(all_results[r].processed_answers) :
                                  ~all_results[r].processed_answers[j].none}}
           : r \in 1..Len(all_results)}

\* the place of a slot among the slots, in the order of results and questions
Rank(slot) ==
    Cardinality({s \in Slots : \/ s[1] < slot[1]
                               \/ s[1] = slot[1] /\ s[2] <= slot[2]})

RECURSIVE StoredQuestions(_)
\* the number of questions of the stored results
StoredQuestions(results) ==
    IF results = <<>> THEN 0
    ELSE Len(Head(results).questions) + StoredQuestions(Tail(results))

\* the pairs are the slots, in order, each its processed answer with the
\* expected answer of its own question
PairsAreSlots ==
    /\ Len(pairs) = Cardinality(Slots)
    /\ \A slot \in Slots :
          /\ Rank(slot) <= Len(pairs)
          /\ slot[2] <= Len(EntryOf(all_results[slot[1]]).qa_pairs)
          /\ pairs[Rank(slot)]
                = << all_results[slot[1]].processed_answers[slot[2]].text,
                     EntryOf(all_results[slot[1]]).qa_pairs[slot[2]].answer >>

\* every stored entry is an entry the loop has reached, with its four lists
\* aligned
StoredAligned ==
    /\ \A r \in 1..Len(all_results) : ListsAligned(all_results[r])
    /\ \A r \in 1..Len(all_results) :
          \E k \in 1..next_entry : entries[k].entry_id = all_results[r].entry_id

\* between two entries and after the loop, processed_questions is the number
\* of questions of the stored entries
CountIsStored ==
    dpc \in {"entries", "evaluate", "batch", "saved"} =>
        processed_questions = StoredQuestions(all_results)

\* the same, in the runs that no KeyboardInterrupt ended
CountIsStoredUninterrupted ==
    loop_end # "interrupt" => CountIsStored

\* C21: every stored entry has its questions, expected answers, responses
\* and processed answers in lists of equal length and matching order;
\* processed_questions is the number of questions of the stored entries (an
\* entry whose get_answers failed is not stored and adds nothing); and the
\* pairs handed to evaluate_batch are, in order, (processed answer, expected
\* answer) of the same question of the same entry, the questions whose
\* processing gave None left out
C21_PairsAligned ==
    /\ StoredAligned
    /\ CountIsStored
    /\ dpc \in {"batch", "saved"} => PairsAreSlots

====
